---- MODULE Spec2Model ----
(***************************************************************************)
(* A model of the GIF89a encoder of the pixelator repository: ByteStream,  *)
(* hexToRgb, lzwCompress (with its emitCode and buildTable closures),      *)
(* packSubBlocks and encodeGIF.  encodeGIF and lzwCompress are modelled as *)
(* state machines whose variables are the locals of the two functions and  *)
(* whose actions are the straight-line pieces of their bodies.             *)
(***************************************************************************)
EXTENDS Integers, Sequences, FiniteSets, TLC

VARIABLES
  pc,           \* position in encodeGIF / lzwCompress
  args,         \* encodeGIF's parameters
  out,          \* encodeGIF: ByteStream.buf of `out`
  gifWidth,     \* encodeGIF locals
  gifHeight,
  fgRgb,
  hasBg,
  bgRgb,
  frameDelay,
  fi,           \* encodeGIF: position of the for-of loop over frames (1-based)
  pixels,       \* encodeGIF's pixel index buffer = lzwCompress's first parameter
  minCodeSize,  \* lzwCompress's second parameter
  bitBuf,       \* lzwCompress locals
  bitLen,
  rawBytes,
  table,
  nextCode,
  codeWidth,
  prefix,
  i,
  emitted,      \* the calls of emitCode made by the current lzwCompress call
  misses,       \* the table misses of the current lzwCompress call, in order
  mounted,          \* PixelEditor: the state `mounted`
  widthState,       \* PixelEditor: the state `width`
  heightState,      \* PixelEditor: the state `height`
  framesState,      \* PixelEditor: the state `frames`
  currentFrame,     \* PixelEditor: the state `currentFrame` (0-based, as in the source)
  historyRef,       \* PixelEditor: historyRef.current
  historyIndexRef,  \* PixelEditor: historyIndexRef.current (0-based, -1 before mount)
  batchingRef,      \* PixelEditor: batchingRef.current
  savedAnimations,  \* PixelEditor: the state `savedAnimations`
  returned      \* what the caller has received: one record per finished encodeGIF call

vars == <<pc, args, out, gifWidth, gifHeight, fgRgb, hasBg, bgRgb, frameDelay,
          fi, pixels, minCodeSize, bitBuf, bitLen, rawBytes, table, nextCode,
          codeWidth, prefix, i, emitted, misses, mounted, widthState, heightState,
          framesState, currentFrame, historyRef, historyIndexRef, batchingRef,
          savedAnimations, returned>>

encVars == <<args, out, gifWidth, gifHeight, fgRgb, hasBg, bgRgb, frameDelay, fi, returned>>
lzwVars == <<bitBuf, bitLen, rawBytes, table, nextCode, codeWidth, prefix, i, emitted,
            misses>>
edVars == <<mounted, widthState, heightState, framesState, currentFrame, historyRef,
           historyIndexRef, batchingRef, savedAnimations>>

\* no PixelEditor component exists
EditorAbsent ==
  /\ mounted = FALSE
  /\ widthState = 0 /\ heightState = 0
  /\ framesState = << >> /\ currentFrame = 0
  /\ historyRef = << >> /\ historyIndexRef = -1
  /\ batchingRef = FALSE
  /\ savedAnimations = << >>

-----------------------------------------------------------------------------
(* Bounds of the model *)

MaxW == 2
MaxH == 2
MaxScale == 3
MaxFrames == 3
MaxMask == 15
MaxSymLen == 5
LongLen == 19670
MaxRate == 201
MaxCalls == 3
Stride == 19651
MaxPackLen == 520
MaxShareBits == 8
MaxCoord == 3
MaxEdFrames == 2
MaxEdHistory == 3

-----------------------------------------------------------------------------
(* Program constants *)

MIN_CODE_SIZE == 2
TRANSPARENT_IDX == 0
FG_IDX == 1
MaxTableCode == 4095
MaxCodeWidth == 12
MaxBlockSize == 255
MinFps == 1
MaxFps == 100

-----------------------------------------------------------------------------
(* Integer helpers: JavaScript's bit operators on the values that occur *)

RECURSIVE Pow2(_)
Pow2(n) == IF n <= 0 THEN 1 ELSE 2 * Pow2(n - 1)

\* a << n
Shl(a, n) == a * Pow2(n)

\* a >> n (arithmetic shift: floor)
Shr(a, n) == a \div Pow2(n)

\* v & 0xff (two's complement: the mathematical residue)
And255(v) == v % 256

\* a | b for non-negative a, b
RECURSIVE BitOr(_, _)
BitOr(a, b) ==
  IF a = 0 THEN b
  ELSE IF b = 0 THEN a
  ELSE (IF (a % 2 = 1) \/ (b % 2 = 1) THEN 1 ELSE 0) + 2 * BitOr(a \div 2, b \div 2)

Min(a, b) == IF a < b THEN a ELSE b
Max(a, b) == IF a > b THEN a ELSE b

\* the sequences over S of length at most n
RECURSIVE SeqsUpTo(_, _)
SeqsUpTo(S, n) ==
  IF n = 0 THEN { << >> }
  ELSE LET shorter == SeqsUpTo(S, n - 1)
       IN  shorter \cup { Append(s, x) : s \in { t \in shorter : Len(t) = n - 1 }, x \in S }

-----------------------------------------------------------------------------
(* class ByteStream: each operation maps the old buf to the new buf *)

\* a faulty constructor: the buffer of the previous call is kept
ByteStreamShared == out

ByteStreamNew == << >>

BsByte(buf, v) == Append(buf, And255(v))

\* a faulty word: the high byte first
BsWordBigEndian(buf, v) == buf \o << And255(Shr(v, 8)), And255(v) >>

BsWord(buf, v) == buf \o << And255(v), And255(Shr(v, 8)) >>

BsBytes(buf, arr) == buf \o [k \in 1..Len(arr) |-> And255(arr[k])]

\* The character codes of the ASCII strings the encoder writes.
CharCode(c) ==
  CASE c = "G" -> 71 [] c = "I" -> 73 [] c = "F" -> 70 [] c = "8" -> 56
    [] c = "9" -> 57 [] c = "a" -> 97 [] c = "N" -> 78 [] c = "E" -> 69
    [] c = "T" -> 84 [] c = "S" -> 83 [] c = "C" -> 67 [] c = "A" -> 65
    [] c = "P" -> 80 [] c = "2" -> 50 [] c = "." -> 46 [] c = "0" -> 48
    [] c = "7" -> 55

\* s is the string as a sequence of one-character strings
BsAscii(buf, s) == buf \o [k \in 1..Len(s) |-> And255(CharCode(s[k]))]

ToUint8Array(buf) == [k \in 1..Len(buf) |-> buf[k] % 256]

-----------------------------------------------------------------------------
(* lzwCompress *)

ClearCodeOf(mcs) == Shl(1, mcs)
EoiCodeOf(mcs) == ClearCodeOf(mcs) + 1

\* The Map `table` is kept as the children of each code: table[p + 1][s + 1]
\* is the code that the key `${p}:${s}` maps to, and NoEntry when the map has
\* no such key; it has one row per code below nextCode.  The literal keys
\* `:${s}` that buildTable sets are the codes 0..clearCode-1 themselves: their
\* rows exist from the start, and the loop never looks a literal key up.
NoEntry == 0

TableHas(t, p, sym) == p + 1 <= Len(t) /\ t[p + 1][sym + 1] # NoEntry
TableGet(t, p, sym) == t[p + 1][sym + 1]

\* table.set(key, code), code being the next unused code
TableSet(t, p, sym, code) ==
  LET widened == IF Len(t) < code + 1 THEN Append(t, [s \in 1..Len(t[1]) |-> NoEntry]) ELSE t
  IN  [widened EXCEPT ![p + 1][sym + 1] = code]

\* the while loop of emitCode
RECURSIVE Drain(_)
Drain(bs) ==
  IF bs.bitLen >= 8
  THEN Drain([bitBuf   |-> Shr(bs.bitBuf, 8),
              bitLen   |-> bs.bitLen - 8,
              rawBytes |-> Append(bs.rawBytes, And255(bs.bitBuf))])
  ELSE bs

\* a faulty emitCode: the code is not shifted past the pending bits
EmitCodeNoShift(bs, code, width) ==
  Drain([bitBuf   |-> BitOr(bs.bitBuf, code),
         bitLen   |-> bs.bitLen + width,
         rawBytes |-> bs.rawBytes])

\* emitCode(code, width) on the bit state bs = [bitBuf, bitLen, rawBytes]
EmitCode(bs, code, width) ==
  Drain([bitBuf   |-> BitOr(bs.bitBuf, Shl(code, bs.bitLen)),
         bitLen   |-> bs.bitLen + width,
         rawBytes |-> bs.rawBytes])

\* a faulty flush: the last partial byte is dropped
FlushNothing(bs) == bs.rawBytes

\* "if (bitLen > 0) rawBytes.push(bitBuf & 0xff)"
Flush(bs) ==
  IF bs.bitLen > 0 THEN Append(bs.rawBytes, And255(bs.bitBuf)) ELSE bs.rawBytes

\* a faulty buildTable: the table of the previous call is kept
BuildTableKept(mcs) ==
  IF table = << >>
  THEN [c \in 1..(EoiCodeOf(mcs) + 1) |-> [s \in 1..ClearCodeOf(mcs) |-> NoEntry]]
  ELSE table

\* buildTable: the literals only (rows for them and for Clear and EOI, no children)
BuildTable(mcs) ==
  [c \in 1..(EoiCodeOf(mcs) + 1) |-> [s \in 1..ClearCodeOf(mcs) |-> NoEntry]]

InitNextCode(mcs) == EoiCodeOf(mcs) + 1
\* a faulty initial width: the minimum code size itself
InitCodeWidthNoExtraBit(mcs) == mcs

InitCodeWidth(mcs) == mcs + 1

\* a faulty table-full test: one code too many fits
TableHasRoomOneMore(nc) == nc <= MaxTableCode + 1

\* "nextCode <= 0xfff"
TableHasRoom(nc) == nc <= MaxTableCode

\* a faulty growth rule: the width grows one code early
GrowWidthEarly(nc, cw) ==
  IF nc >= Shl(1, cw) /\ cw < MaxCodeWidth THEN cw + 1 ELSE cw

\* a faulty growth rule: the width never grows
GrowWidthNever(nc, cw) == cw

\* a faulty growth rule: the width grows one code late
GrowWidthLate(nc, cw) ==
  IF nc > Shl(1, cw) + 1 /\ cw < MaxCodeWidth THEN cw + 1 ELSE cw

\* "if (nextCode > (1 << codeWidth) && codeWidth < 12) codeWidth++", nc the
\* incremented nextCode
GrowWidth(nc, cw) ==
  IF nc > Shl(1, cw) /\ cw < MaxCodeWidth THEN cw + 1 ELSE cw

BitState == [bitBuf |-> bitBuf, bitLen |-> bitLen, rawBytes |-> rawBytes]

\* one call of emitCode
Emit(code, width) == <<code, width>>
EmitCodeOf(e) == e[1]
EmitWidthOf(e) == e[2]

\* lines 67-107: the locals, the first Clear, the empty input, the seed
LzwStart ==
  /\ pc = "lzwStart"
  /\ LET clearCode == ClearCodeOf(minCodeSize)
         eoiCode   == EoiCodeOf(minCodeSize)
         cw        == InitCodeWidth(minCodeSize)
         bs0       == [bitBuf |-> 0, bitLen |-> 0, rawBytes |-> << >>]
         bs1       == EmitCode(bs0, clearCode, cw)
     IN  /\ table' = BuildTable(minCodeSize)
         /\ nextCode' = InitNextCode(minCodeSize)
         /\ codeWidth' = cw
         /\ misses' = << >>
         /\ IF Len(pixels) = 0
            THEN LET bs2 == EmitCode(bs1, eoiCode, cw)
                 IN  /\ bitBuf' = bs2.bitBuf
                     /\ bitLen' = bs2.bitLen
                     /\ rawBytes' = Flush(bs2)
                     /\ emitted' = << Emit(clearCode, cw), Emit(eoiCode, cw) >>
                     /\ pc' = "lzwReturned"
                     /\ UNCHANGED <<prefix, i>>
            ELSE /\ bitBuf' = bs1.bitBuf
                 /\ bitLen' = bs1.bitLen
                 /\ rawBytes' = bs1.rawBytes
                 /\ emitted' = << Emit(clearCode, cw) >>
                 /\ prefix' = pixels[1]
                 /\ i' = 1
                 /\ pc' = "lzwLoop"
  /\ UNCHANGED <<edVars, encVars, pixels, minCodeSize>>

\* the locals of lzwCompress as one record
LzwLocals ==
  [bitBuf |-> bitBuf, bitLen |-> bitLen, rawBytes |-> rawBytes, table |-> table,
   nextCode |-> nextCode, codeWidth |-> codeWidth, prefix |-> prefix, i |-> i,
   emitted |-> emitted, misses |-> misses]

\* What the loop body did at a miss: the locals it read (the number of codes
\* emitted before, prefix, symbol, nextCode and codeWidth), whether it called
\* table.set and with which code, and the nextCode and codeWidth it left.
Miss(st, sym, inserted, code, nc, cw) ==
  [at |-> Len(st.emitted), prefix |-> st.prefix, sym |-> sym,
   nextCode |-> st.nextCode, codeWidth |-> st.codeWidth,
   inserted |-> inserted, code |-> code, newNextCode |-> nc, newCodeWidth |-> cw]

\* lines 110-130: the body of the for loop at index st.i (0-based), on the locals st
LoopBody(st, px, mcs) ==
  LET sym == px[st.i + 1]
  IN  IF TableHas(st.table, st.prefix, sym)
      THEN [st EXCEPT !.prefix = TableGet(st.table, st.prefix, sym), !.i = st.i + 1]
      ELSE
        LET bs1 == EmitCode([bitBuf |-> st.bitBuf, bitLen |-> st.bitLen,
                             rawBytes |-> st.rawBytes], st.prefix, st.codeWidth)
        IN  IF TableHasRoom(st.nextCode)
            THEN [st EXCEPT !.table = TableSet(st.table, st.prefix, sym, st.nextCode),
                            !.nextCode = st.nextCode + 1,
                            !.codeWidth = GrowWidth(st.nextCode + 1, st.codeWidth),
                            !.bitBuf = bs1.bitBuf,
                            !.bitLen = bs1.bitLen,
                            !.rawBytes = bs1.rawBytes,
                            !.emitted = Append(st.emitted, Emit(st.prefix, st.codeWidth)),
                            !.misses = Append(st.misses,
                                Miss(st, sym, TRUE, st.nextCode, st.nextCode + 1,
                                     GrowWidth(st.nextCode + 1, st.codeWidth))),
                            !.prefix = sym,
                            !.i = st.i + 1]
            ELSE
              LET bs2 == EmitCode(bs1, ClearCodeOf(mcs), st.codeWidth)
              IN  [st EXCEPT !.table = BuildTable(mcs),
                             !.nextCode = InitNextCode(mcs),
                             !.codeWidth = InitCodeWidth(mcs),
                             !.bitBuf = bs2.bitBuf,
                             !.bitLen = bs2.bitLen,
                             !.rawBytes = bs2.rawBytes,
                             !.emitted = st.emitted \o
                                << Emit(st.prefix, st.codeWidth),
                                   Emit(ClearCodeOf(mcs), st.codeWidth) >>,
                             !.misses = Append(st.misses,
                                 Miss(st, sym, FALSE, NoEntry, InitNextCode(mcs),
                                      InitCodeWidth(mcs))),
                             !.prefix = sym,
                             !.i = st.i + 1]

\* n consecutive iterations of the for loop, or as many as are left (the first
\* half of them, then the rest)
RECURSIVE Iterate(_, _, _, _)
Iterate(st, px, mcs, n) ==
  IF n = 0 \/ st.i >= Len(px) THEN st
  ELSE IF n = 1 THEN LoopBody(st, px, mcs)
  ELSE Iterate(Iterate(st, px, mcs, n \div 2), px, mcs, n - (n \div 2))

\* n consecutive iterations of the for loop as one step of the model
LzwIterations(n) ==
  \E st \in { Iterate(LzwLocals, pixels, minCodeSize, n) } :
    /\ bitBuf' = st.bitBuf
    /\ bitLen' = st.bitLen
    /\ rawBytes' = st.rawBytes
    /\ table' = st.table
    /\ nextCode' = st.nextCode
    /\ codeWidth' = st.codeWidth
    /\ prefix' = st.prefix
    /\ i' = st.i
    /\ emitted' = st.emitted
    /\ misses' = st.misses

\* A step of the model is one iteration of the for loop, except that an input
\* longer than Stride starts with its first Stride iterations taken as one
\* step; every call of emitCode they make is still recorded in emitted.
StepLen == IF i = 1 /\ Len(pixels) > Stride THEN Stride ELSE 1

\* lines 109-131: the for loop
LzwStep ==
  /\ pc = "lzwLoop"
  /\ i < Len(pixels)
  /\ LzwIterations(StepLen)
  /\ pc' = "lzwLoop"
  /\ UNCHANGED <<edVars, encVars, pixels, minCodeSize>>

\* a faulty ending: the final prefix is not emitted
LzwFinishNoPrefix ==
  /\ pc = "lzwLoop"
  /\ i >= Len(pixels)
  /\ LET bs2 == EmitCode(BitState, EoiCodeOf(minCodeSize), codeWidth)
     IN  /\ bitBuf' = bs2.bitBuf
         /\ bitLen' = bs2.bitLen
         /\ rawBytes' = Flush(bs2)
         /\ emitted' = Append(emitted, Emit(EoiCodeOf(minCodeSize), codeWidth))
  /\ pc' = "lzwReturned"
  /\ UNCHANGED <<edVars, encVars, pixels, minCodeSize, table, nextCode, codeWidth, prefix, i,
                 misses>>

\* lines 133-139: the final prefix, EOI, the flush, the return
LzwFinish ==
  /\ pc = "lzwLoop"
  /\ i >= Len(pixels)
  /\ LET bs1 == EmitCode(BitState, prefix, codeWidth)
         bs2 == EmitCode(bs1, EoiCodeOf(minCodeSize), codeWidth)
     IN  /\ bitBuf' = bs2.bitBuf
         /\ bitLen' = bs2.bitLen
         /\ rawBytes' = Flush(bs2)
         /\ emitted' = emitted \o << Emit(prefix, codeWidth),
                                    Emit(EoiCodeOf(minCodeSize), codeWidth) >>
  /\ pc' = "lzwReturned"
  /\ UNCHANGED <<edVars, encVars, pixels, minCodeSize, table, nextCode, codeWidth, prefix, i,
                 misses>>

-----------------------------------------------------------------------------
(* packSubBlocks *)

SubSeqFrom(data, offset, n) == [k \in 1..n |-> data[offset + k]]

\* a faulty loop: the block size is not capped
RECURSIVE PackFromUncapped(_, _, _)
PackFromUncapped(data, offset, acc) ==
  IF offset < Len(data)
  THEN LET blockSize == Len(data) - offset
       IN  PackFromUncapped(data, offset + blockSize,
                            Append(acc, blockSize) \o SubSeqFrom(data, offset, blockSize))
  ELSE Append(acc, 0)

\* the while loop, from `offset` (0-based) on, appending to acc
RECURSIVE PackFrom(_, _, _)
PackFrom(data, offset, acc) ==
  IF offset < Len(data)
  THEN LET blockSize == Min(MaxBlockSize, Len(data) - offset)
       IN  PackFrom(data, offset + blockSize,
                    Append(acc, blockSize) \o SubSeqFrom(data, offset, blockSize))
  ELSE Append(acc, 0)

PackSubBlocks(data) == PackFrom(data, 0, << >>)

-----------------------------------------------------------------------------
(* hexToRgb: a colour string is a sequence of one-character strings *)

HexDigits == <<"0", "1", "2", "3", "4", "5", "6", "7", "8", "9",
               "a", "b", "c", "d", "e", "f">>
HexUpper == <<"0", "1", "2", "3", "4", "5", "6", "7", "8", "9",
              "A", "B", "C", "D", "E", "F">>

IsHexDigit(c) == \E k \in 1..16 : HexDigits[k] = c \/ HexUpper[k] = c

HexValue(c) == (CHOOSE k \in 1..16 : HexDigits[k] = c \/ HexUpper[k] = c) - 1

\* hex.replace('#', ''): the first '#' is removed
RemoveFirstHash(s) ==
  IF \E k \in 1..Len(s) : s[k] = "#"
  THEN LET at == CHOOSE k \in 1..Len(s) : s[k] = "#" /\ \A j \in 1..(k - 1) : s[j] # "#"
       IN  [k \in 1..(Len(s) - 1) |-> IF k < at THEN s[k] ELSE s[k + 1]]
  ELSE s

\* h.slice(from, to), 0-based, end exclusive, clipped to the string
Slice(s, from, to) ==
  LET hi == Min(to, Len(s))
  IN  IF from >= hi THEN << >> ELSE [k \in 1..(hi - from) |-> s[from + k]]

\* parseInt(s, 16) of a string of hexadecimal digits
RECURSIVE ParseHex(_, _)
ParseHex(s, acc) ==
  IF s = << >> \/ ~IsHexDigit(Head(s)) THEN acc
  ELSE ParseHex(Tail(s), 16 * acc + HexValue(Head(s)))

HexToRgb(hex) ==
  LET h == RemoveFirstHash(hex)
  IN  << ParseHex(Slice(h, 0, 2), 0), ParseHex(Slice(h, 2, 4), 0), ParseHex(Slice(h, 4, 6), 0) >>

-----------------------------------------------------------------------------
(* encodeGIF *)

\* "Math.max(1, Math.min(100, fps))"
SafeFps(fps) == Max(MinFps, Min(MaxFps, fps))

\* a faulty rounding: the quotient is truncated
RoundDiv100Floor(n) == 100 \div n

\* Math.round(100 / n) for an integer n >= 1: floor(100/n + 1/2)
RoundDiv100(n) == (200 + n) \div (2 * n)

FrameDelayOf(fps) == RoundDiv100(SafeFps(fps))

\* a faulty cell test: the two indices exchanged
CellIndexInverted(frame, y, x) ==
  IF y + 1 <= Len(frame) /\ x + 1 <= Len(frame[y + 1]) /\ frame[y + 1][x + 1]
  THEN TRANSPARENT_IDX ELSE FG_IDX

\* "row?.[x] ? FG_IDX : TRANSPARENT_IDX", y and x 0-based
CellIndex(frame, y, x) ==
  IF y + 1 <= Len(frame) /\ x + 1 <= Len(frame[y + 1]) /\ frame[y + 1][x + 1]
  THEN FG_IDX ELSE TRANSPARENT_IDX

\* a faulty sx loop: one copy of idx
RepeatOnce(v, n) == << v >>

\* the sx loop: scale copies of idx
RECURSIVE Repeat(_, _)
Repeat(v, n) == IF n <= 0 THEN << >> ELSE << v >> \o Repeat(v, n - 1)

\* the x loop of one scan line, from column x on
RECURSIVE ScanLine(_, _, _, _, _)
ScanLine(frame, y, x, width, scale) ==
  IF x < width
  THEN Repeat(CellIndex(frame, y, x), scale) \o ScanLine(frame, y, x + 1, width, scale)
  ELSE << >>

\* a faulty sy loop: the scan line is written once
ScaledRowOnce(frame, y, sy, width, scale) == ScanLine(frame, y, 0, width, scale)

\* the sy loop: the scan line of row y written scale times, from sy on
RECURSIVE ScaledRow(_, _, _, _, _)
ScaledRow(frame, y, sy, width, scale) ==
  IF sy < scale
  THEN ScanLine(frame, y, 0, width, scale) \o ScaledRow(frame, y, sy + 1, width, scale)
  ELSE << >>

\* the y loop, from row y on
RECURSIVE BuildRows(_, _, _, _, _)
BuildRows(frame, y, width, height, scale) ==
  IF y < height
  THEN ScaledRow(frame, y, 0, width, scale) \o BuildRows(frame, y + 1, width, height, scale)
  ELSE << >>

BuildPixels(frame, width, height, scale) == BuildRows(frame, 0, width, height, scale)

\* a faulty header: the older version string
StrGIF87a == <<"G", "I", "F", "8", "7", "a">>

StrGIF89a == <<"G", "I", "F", "8", "9", "a">>
StrNETSCAPE == <<"N", "E", "T", "S", "C", "A", "P", "E">>
Str20 == <<"2", ".", "0">>

\* 0b10110001
LsdPacked == 177
\* 0b00001000 and 0b00001001
GcePackedOpaque == 8
GcePackedTransparent == 9

\* 0x3b
TrailerByte == 59

\* lines 210-227
WriteHeaderAndLsd(buf, gw, gh) ==
  BsByte(BsByte(BsByte(BsWord(BsWord(BsAscii(buf, StrGIF89a), gw), gh), LsdPacked), 0), 0)

\* a faulty colour table: foreground and background entries swapped
WriteColorTableSwapped(buf, bg, fg) ==
  BsBytes(BsBytes(BsBytes(BsBytes(buf, fg), bg), <<255, 255, 255>>), <<255, 255, 255>>)

\* lines 231-236
WriteColorTable(buf, bg, fg) ==
  BsBytes(BsBytes(BsBytes(BsBytes(buf, bg), fg), <<255, 255, 255>>), <<255, 255, 255>>)

\* lines 239-247
WriteLoopExtension(buf) ==
  BsByte(BsWord(BsByte(BsByte(BsAscii(BsAscii(BsByte(BsByte(BsByte(buf, 33), 255), 11),
         StrNETSCAPE), Str20), 3), 1), 0), 0)

\* a faulty frame extension: it carries the Application Extension label
WriteGceWrongLabel(buf, bgGiven, delay) ==
  BsByte(BsByte(BsWord(BsByte(BsByte(BsByte(BsByte(buf, 33), 255), 4),
         IF bgGiven THEN 8 ELSE 9), delay), 0), 0)

\* a faulty frame extension: the disposal method is left at 0
WriteGceNoDisposal(buf, bgGiven, delay) ==
  BsByte(BsByte(BsWord(BsByte(BsByte(BsByte(BsByte(buf, 33), 249), 4),
         IF bgGiven THEN 0 ELSE 1), delay), 0), 0)

\* lines 252-267
WriteGce(buf, bgGiven, delay) ==
  BsByte(BsByte(BsWord(BsByte(BsByte(BsByte(BsByte(buf, 33), 249), 4),
         IF bgGiven THEN GcePackedOpaque ELSE GcePackedTransparent), delay),
         TRANSPARENT_IDX), 0)

\* a faulty descriptor: its packed byte is left out
WriteImageDescriptorNoFlags(buf, gw, gh) ==
  BsWord(BsWord(BsWord(BsWord(BsByte(buf, 44), 0), 0), gw), gh)

\* a faulty descriptor: width and height words in the wrong order
WriteImageDescriptorSwapped(buf, gw, gh) ==
  BsByte(BsWord(BsWord(BsWord(BsWord(BsByte(buf, 44), 0), 0), gh), gw), 0)

\* lines 270-282
WriteImageDescriptor(buf, gw, gh) ==
  BsByte(BsWord(BsWord(BsWord(BsWord(BsByte(buf, 44), 0), 0), gw), gh), 0)

\* lines 191-247: the locals and everything written before the frames
EncodeStart ==
  /\ pc = "start"
  /\ LET gw == args.width * args.scale
         gh == args.height * args.scale
         fg == HexToRgb(args.fgColor)
         bg == IF args.hasBgColor THEN HexToRgb(args.bgColor) ELSE <<0, 0, 0>>
     IN  /\ gifWidth' = gw
         /\ gifHeight' = gh
         /\ fgRgb' = fg
         /\ hasBg' = args.hasBgColor
         /\ bgRgb' = bg
         /\ frameDelay' = FrameDelayOf(args.fps)
         /\ out' = WriteLoopExtension(
                     WriteColorTable(WriteHeaderAndLsd(ByteStreamNew, gw, gh), bg, fg))
  /\ fi' = 1
  /\ pc' = "frameLoop"
  /\ UNCHANGED <<args, returned, pixels, minCodeSize, lzwVars, edVars>>

\* lines 250-302: the next frame's extension, descriptor, pixel buffer and
\* minimum code size, up to the call of lzwCompress
FrameBegin ==
  /\ pc = "frameLoop"
  /\ fi <= Len(args.frames)
  /\ out' = BsByte(WriteImageDescriptor(WriteGce(out, hasBg, frameDelay),
                                        gifWidth, gifHeight), MIN_CODE_SIZE)
  /\ pixels' = BuildPixels(args.frames[fi], args.width, args.height, args.scale)
  /\ minCodeSize' = MIN_CODE_SIZE
  /\ pc' = "lzwStart"
  /\ UNCHANGED <<args, gifWidth, gifHeight, fgRgb, hasBg, bgRgb, frameDelay, fi,
                 returned, lzwVars, edVars>>

\* line 303, and the loop's step to the next frame
FrameEnd ==
  /\ pc = "lzwReturned"
  /\ out' = BsBytes(out, PackSubBlocks(rawBytes))
  /\ fi' = fi + 1
  /\ pc' = "frameLoop"
  /\ UNCHANGED <<args, gifWidth, gifHeight, fgRgb, hasBg, bgRgb, frameDelay,
                 returned, pixels, minCodeSize, lzwVars, edVars>>

\* lines 307-309: the trailer and the return
EncodeFinish ==
  /\ pc = "frameLoop"
  /\ fi > Len(args.frames)
  /\ out' = BsByte(out, TrailerByte)
  /\ returned' = Append(returned, [args |-> args, bytes |-> ToUint8Array(BsByte(out, TrailerByte))])
  /\ pc' = "done"
  /\ UNCHANGED <<args, gifWidth, gifHeight, fgRgb, hasBg, bgRgb, frameDelay, fi,
                 pixels, minCodeSize, lzwVars, edVars>>

-----------------------------------------------------------------------------
(* The inputs of encodeGIF *)

\* the height x width grid whose cell k (row-major, from 0) is on iff bit k of mask is 1
Grid(w, h, mask) ==
  [y \in 1..h |-> [x \in 1..w |-> (mask \div Pow2((y - 1) * w + (x - 1))) % 2 = 1]]

Grids(w, h) == { Grid(w, h, m) : m \in 0..Min(MaxMask, Pow2(w * h) - 1) }

FrameLists(w, h, n) == SeqsUpTo(Grids(w, h), n)

ColorBlack == <<"#", "0", "0", "0", "0", "0", "0">>
ColorMarker == <<"#", "2", "1", "f", "9", "2", "c">>
ColorUpper == <<"#", "F", "F", "8", "0", "0", "A">>
ColorNoHash == <<"1", "2", "a", "b", "E", "f">>
Colors == { ColorBlack, ColorMarker, ColorUpper, ColorNoHash }

BaseFps == 5

Args(w, h, frames, fps, scale, fg, bgGiven, bg) ==
  [width |-> w, height |-> h, frames |-> frames, fps |-> fps, scale |-> scale,
   fgColor |-> fg, hasBgColor |-> bgGiven, bgColor |-> bg]

\* every geometry, scale and frame content, one frame, default rate and colours
ContentInputs ==
  UNION { { Args(w, h, << g >>, BaseFps, sc, ColorBlack, FALSE, << >>) :
              g \in Grids(w, h), sc \in 1..MaxScale } :
          w \in 1..MaxW, h \in 1..MaxH }

\* every list of up to MaxFrames two-pixel frames, the empty list included
SequenceInputs ==
  { Args(2, 1, fr, BaseFps, 1, ColorBlack, FALSE, << >>) :
      fr \in FrameLists(2, 1, MaxFrames) }

\* every rate, on two-pixel frames
Rates == (-1)..MaxRate
RateInputs ==
  { Args(2, 1, fr, fps, 1, ColorBlack, FALSE, << >>) :
      fr \in FrameLists(2, 1, 1), fps \in Rates }

\* every colour selection, on one-pixel frames
ColorInputs ==
  { Args(1, 1, fr, BaseFps, 1, fg, FALSE, << >>) :
      fr \in FrameLists(1, 1, 1), fg \in Colors }
  \cup
  { Args(1, 1, fr, BaseFps, 1, fg, TRUE, bg) :
      fr \in FrameLists(1, 1, 1), fg \in Colors, bg \in Colors }

\* the two-frame 4x4 scenario
ScenarioTwoByOne ==
  Args(2, 1, << << <<TRUE, FALSE>> >> >>, 5, 1, ColorBlack, FALSE, << >>)
ScenarioTwoFrames ==
  Args(1, 1, << << <<TRUE>> >>, << <<FALSE>> >> >>, 10, 4, ColorBlack, FALSE, << >>)
ScenarioInputs == { ScenarioTwoByOne, ScenarioTwoFrames }

\* widths beyond one byte and beyond one word, on frames without rows
WideWidths == { 300, 65537 }
WideInputs ==
  { Args(w, 0, << << >> >>, BaseFps, sc, ColorBlack, FALSE, << >>) :
      w \in WideWidths, sc \in 1..MaxScale }

Inputs ==
  ContentInputs \cup SequenceInputs \cup RateInputs \cup ColorInputs \cup ScenarioInputs
    \cup WideInputs

\* the locals before the first call
InitLocals ==
  /\ out = << >>
  /\ gifWidth = 0 /\ gifHeight = 0
  /\ fgRgb = << >> /\ hasBg = FALSE /\ bgRgb = << >>
  /\ frameDelay = 0 /\ fi = 0
  /\ pixels = << >> /\ minCodeSize = 0
  /\ bitBuf = 0 /\ bitLen = 0 /\ rawBytes = << >>
  /\ table = << >> /\ nextCode = 0 /\ codeWidth = 0
  /\ prefix = 0 /\ i = 0
  /\ emitted = << >>
  /\ misses = << >>
  /\ EditorAbsent
  /\ returned = << >>

Init ==
  /\ pc = "start"
  /\ args \in Inputs
  /\ InitLocals

Next == EncodeStart \/ FrameBegin \/ LzwStart \/ LzwStep \/ LzwFinish
          \/ FrameEnd \/ EncodeFinish

Spec == Init /\ [][Next]_vars

-----------------------------------------------------------------------------
(* encodeGIF on frames whose rows or cells are missing or in excess *)

RaggedFrames ==
  { << >>,
    << <<TRUE>> >>,
    << <<TRUE, TRUE>> >>,
    << << >>, <<FALSE, TRUE>> >>,
    << <<TRUE>>, <<TRUE, TRUE>> >>,
    << <<FALSE, TRUE, TRUE>>, <<TRUE, FALSE>>, <<TRUE, TRUE>> >> }

RaggedInputs ==
  { Args(2, 2, << fr >>, BaseFps, sc, ColorBlack, FALSE, << >>) :
      fr \in RaggedFrames, sc \in 1..MaxScale }

InitRagged ==
  /\ pc = "start"
  /\ args \in ContentInputs \cup RaggedInputs
  /\ InitLocals

SpecRagged == InitRagged /\ [][Next]_vars

-----------------------------------------------------------------------------
(* Several calls of encodeGIF, one after the other *)

CallRates == {1, 100}

CallInputs ==
  { Args(2, 1, fr, fps, 1, ColorBlack, FALSE, << >>) :
      fr \in { << >>, << Grid(2, 1, 1) >>, << Grid(2, 1, 2), Grid(2, 1, 1) >> },
      fps \in CallRates }
  \cup
  { Args(1, 1, << Grid(1, 1, 1) >>, BaseFps, 2, ColorMarker, TRUE, ColorUpper) }

InitCalls ==
  /\ pc = "start"
  /\ args \in CallInputs
  /\ InitLocals

\* the caller calls encodeGIF again; nothing the previous call left is cleared here
CallAgain ==
  /\ pc = "done"
  /\ Len(returned) < MaxCalls
  /\ args' \in CallInputs
  /\ pc' = "start"
  /\ UNCHANGED <<out, gifWidth, gifHeight, fgRgb, hasBg, bgRgb, frameDelay, fi,
                 returned, pixels, minCodeSize, lzwVars, edVars>>

NextCalls == Next \/ CallAgain

SpecCalls == InitCalls /\ [][NextCalls]_vars

-----------------------------------------------------------------------------
(* lzwCompress called on its own, for every symbol sequence *)

Symbols == 0..(ClearCodeOf(MIN_CODE_SIZE) - 1)

\* A long input that fills the code table: the base-4 numerals of
\* MaxCodeWidth bits (six digits), 000000, 000001, ... written one after
\* the other.
LongDigits == MaxCodeWidth \div MIN_CODE_SIZE
LongInput ==
  [k \in 1..LongLen |->
     (((k - 1) \div LongDigits) \div Shl(1, 2 * (LongDigits - 1 - ((k - 1) % LongDigits)))) % 4]

SymbolInputs == SeqsUpTo(Symbols, MaxSymLen) \cup { LongInput }

NoArgs == [width |-> 0, height |-> 0, frames |-> << >>, fps |-> 0, scale |-> 0,
           fgColor |-> << >>, bgColor |-> << >>, hasBgColor |-> FALSE]

InitLzw ==
  /\ pc = "lzwStart"
  /\ pixels \in SymbolInputs
  /\ minCodeSize = MIN_CODE_SIZE
  /\ args = NoArgs
  /\ out = << >>
  /\ gifWidth = 0 /\ gifHeight = 0
  /\ fgRgb = << >> /\ hasBg = FALSE /\ bgRgb = << >>
  /\ frameDelay = 0 /\ fi = 0
  /\ bitBuf = 0 /\ bitLen = 0 /\ rawBytes = << >>
  /\ table = << >> /\ nextCode = 0 /\ codeWidth = 0
  /\ prefix = 0 /\ i = 0
  /\ emitted = << >>
  /\ misses = << >>
  /\ EditorAbsent
  /\ returned = << >>

NextLzw == LzwStart \/ LzwStep \/ LzwFinish

SpecLzw == InitLzw /\ [][NextLzw]_vars

-----------------------------------------------------------------------------
(* encodeGIF called with a rate and then with that rate clamped *)

ClampRate(fps) == IF fps <= 1 THEN 1 ELSE IF fps >= 100 THEN 100 ELSE fps

InitRate ==
  /\ pc = "start"
  /\ args \in RateInputs
  /\ InitLocals

\* the caller repeats the call with the rate replaced by its clamped value
CallClamped ==
  /\ pc = "done"
  /\ Len(returned) = 1
  /\ args' = [args EXCEPT !.fps = ClampRate(args.fps)]
  /\ pc' = "start"
  /\ UNCHANGED <<out, gifWidth, gifHeight, fgRgb, hasBg, bgRgb, frameDelay, fi,
                 returned, pixels, minCodeSize, lzwVars, edVars>>

NextRate == Next \/ CallClamped

SpecRate == InitRate /\ [][NextRate]_vars

-----------------------------------------------------------------------------
(* packSubBlocks called on its own, for byte sequences of every length *)

\* n bytes: 1, 2, ..., 255, 0, 1, ... (kind 1), all 0 (kind 2), all 255 (kind 3)
PackData(n, kind) ==
  [j \in 1..n |-> IF kind = 1 THEN j % 256 ELSE IF kind = 2 THEN 0 ELSE 255]

PackInputs == { PackData(n, kind) : n \in 0..MaxPackLen, kind \in 1..3 }

\* rawBytes holds the parameter `data`, out the returned array
InitPack ==
  /\ pc = "packStart"
  /\ rawBytes \in PackInputs
  /\ args = NoArgs
  /\ out = << >>
  /\ gifWidth = 0 /\ gifHeight = 0
  /\ fgRgb = << >> /\ hasBg = FALSE /\ bgRgb = << >>
  /\ frameDelay = 0 /\ fi = 0
  /\ pixels = << >> /\ minCodeSize = 0
  /\ bitBuf = 0 /\ bitLen = 0
  /\ table = << >> /\ nextCode = 0 /\ codeWidth = 0
  /\ prefix = 0 /\ i = 0
  /\ emitted = << >>
  /\ misses = << >>
  /\ EditorAbsent
  /\ returned = << >>

\* lines 148-161: the call
PackCall ==
  /\ pc = "packStart"
  /\ out' = PackSubBlocks(rawBytes)
  /\ pc' = "packReturned"
  /\ UNCHANGED <<args, gifWidth, gifHeight, fgRgb, hasBg, bgRgb, frameDelay, fi,
                 returned, pixels, minCodeSize, lzwVars, edVars>>

NextPack == PackCall

SpecPack == InitPack /\ [][NextPack]_vars

-----------------------------------------------------------------------------
(* A ByteStream used on its own: any operations in any order.  out is the
   buffer, args the last operation with its argument, returned the results
   of toUint8Array. *)

MaxBufLen == 3
MaxFinal == 2

StreamValues == { -257, -1, 0, 255, 256, 4660, 65535, 65537 }
StreamArrays == { << >>, << 0 >>, << 256, -1 >>, << 511, 4660 >> }
StreamStrings == { << >>, << "G" >>, StrGIF89a, Str20 }

InitStream ==
  /\ pc = "stream"
  /\ args = [op |-> "new"]
  /\ InitLocals

StreamRest ==
  /\ pc' = pc
  /\ UNCHANGED <<gifWidth, gifHeight, fgRgb, hasBg, bgRgb, frameDelay, fi,
                 pixels, minCodeSize, lzwVars, edVars>>

StreamByte ==
  /\ pc = "stream" /\ Len(out) < MaxBufLen
  /\ \E v \in StreamValues :
       /\ out' = BsByte(out, v)
       /\ args' = [op |-> "byte", arg |-> v]
  /\ UNCHANGED returned
  /\ StreamRest

StreamWord ==
  /\ pc = "stream" /\ Len(out) < MaxBufLen
  /\ \E v \in StreamValues :
       /\ out' = BsWord(out, v)
       /\ args' = [op |-> "word", arg |-> v]
  /\ UNCHANGED returned
  /\ StreamRest

StreamBytes ==
  /\ pc = "stream" /\ Len(out) < MaxBufLen
  /\ \E arr \in StreamArrays :
       /\ out' = BsBytes(out, arr)
       /\ args' = [op |-> "bytes", arg |-> arr]
  /\ UNCHANGED returned
  /\ StreamRest

StreamAscii ==
  /\ pc = "stream" /\ Len(out) < MaxBufLen
  /\ \E str \in StreamStrings :
       /\ out' = BsAscii(out, str)
       /\ args' = [op |-> "ascii", arg |-> str]
  /\ UNCHANGED returned
  /\ StreamRest

StreamToUint8Array ==
  /\ pc = "stream" /\ Len(returned) < MaxFinal
  /\ args' = [op |-> "toUint8Array"]
  /\ returned' = Append(returned, [args |-> args', bytes |-> ToUint8Array(out)])
  /\ UNCHANGED out
  /\ StreamRest

NextStream == StreamByte \/ StreamWord \/ StreamBytes \/ StreamAscii \/ StreamToUint8Array

SpecStream == InitStream /\ [][NextStream]_vars

-----------------------------------------------------------------------------
(* The PixelEditor component: frames, the current frame and the undo history.
   The states fps, cellSize, inputWidth, inputHeight, ghostEnabled and the
   dialogs take no part in what follows and are left out; the sizes typed
   into the two inputs are drawn when handleApplySize runs, and the saved
   animations are those read from localStorage at mount. *)

MAX_HISTORY == 100
DefaultSize == 16
MinSize == 1
MaxSize == 64

\* createEmptyGrid(w, h)
CreateEmptyGrid(w, h) == [y \in 1..h |-> [x \in 1..w |-> FALSE]]

\* framesEqual(a, b): the lengths and the cells, frame by frame and row by row
FramesEqual(a, b) ==
  /\ Len(a) = Len(b)
  /\ \A f \in 1..Len(a) :
       /\ Len(a[f]) = Len(b[f])
       /\ \A y \in 1..Len(a[f]) :
            /\ Len(a[f][y]) = Len(b[f][y])
            /\ \A x \in 1..Len(a[f][y]) : a[f][y][x] = b[f][y][x]

\* cloneFrames(frames): a copy of every row of every frame
CloneFrames(fs) ==
  [f \in 1..Len(fs) |-> [y \in 1..Len(fs[f]) |-> [x \in 1..Len(fs[f][y]) |-> fs[f][y][x]]]]

Snapshot(fs, cur) == [frames |-> fs, currentFrame |-> cur]

\* a faulty pushHistory: the snapshots after the current one are kept
PushHistoryKeepTail(hist, idx, newFrames, newCurrentFrame) ==
  IF /\ idx >= 0 /\ idx < Len(hist)
     /\ FramesEqual(hist[idx + 1].frames, newFrames)
     /\ hist[idx + 1].currentFrame = newCurrentFrame
  THEN [history |-> hist, index |-> idx]
  ELSE LET pushed == Append(hist, Snapshot(CloneFrames(newFrames), newCurrentFrame))
           kept   == IF Len(pushed) > MAX_HISTORY THEN Tail(pushed) ELSE pushed
       IN  [history |-> kept, index |-> Len(kept) - 1]

\* a faulty pushHistory: the oldest snapshot is dropped one push late
PushHistoryLateShift(hist, idx, newFrames, newCurrentFrame) ==
  IF /\ idx >= 0 /\ idx < Len(hist)
     /\ FramesEqual(hist[idx + 1].frames, newFrames)
     /\ hist[idx + 1].currentFrame = newCurrentFrame
  THEN [history |-> hist, index |-> idx]
  ELSE LET pushed == Append(SubSeq(hist, 1, idx + 1),
                            Snapshot(CloneFrames(newFrames), newCurrentFrame))
           kept   == IF Len(pushed) > MAX_HISTORY + 1 THEN Tail(pushed) ELSE pushed
       IN  [history |-> kept, index |-> Len(kept) - 1]

\* pushHistory(newFrames, newCurrentFrame) on historyRef.current = hist and
\* historyIndexRef.current = idx: the two refs it leaves
PushHistory(hist, idx, newFrames, newCurrentFrame) ==
  IF /\ idx >= 0 /\ idx < Len(hist)
     /\ FramesEqual(hist[idx + 1].frames, newFrames)
     /\ hist[idx + 1].currentFrame = newCurrentFrame
  THEN [history |-> hist, index |-> idx]
  ELSE LET pushed == Append(SubSeq(hist, 1, idx + 1),
                            Snapshot(CloneFrames(newFrames), newCurrentFrame))
           kept   == IF Len(pushed) > MAX_HISTORY THEN Tail(pushed) ELSE pushed
       IN  [history |-> kept, index |-> Len(kept) - 1]

\* the two refs after pushHistory(newFrames, newCurrentFrame)
Pushed(newFrames, newCurrentFrame) ==
  \E r \in { PushHistory(historyRef, historyIndexRef, newFrames, newCurrentFrame) } :
    /\ historyRef' = r.history
    /\ historyIndexRef' = r.index

\* "const updated = [...prev]; updated[currentFrame] = next"
UpdatedAt(prev, k, next) ==
  IF k < Len(prev) THEN [prev EXCEPT ![k + 1] = next] ELSE Append(prev, next)

\* splice(k, 0, v)
InsertAt(prev, k, v) == SubSeq(prev, 1, k) \o << v >> \o SubSeq(prev, k + 1, Len(prev))

\* filter((_, i) => i !== k)
RemoveAt(prev, k) == SubSeq(prev, 1, k) \o SubSeq(prev, k + 2, Len(prev))

\* "Math.max(1, Math.min(64, parseInt(input) || 16))", n the parsed number
\* (0 also stands for an input that does not parse)
AppliedSize(n) == Max(MinSize, Min(MaxSize, IF n = 0 THEN DefaultSize ELSE n))

\* the grid handleApplySize makes of a frame
Resized(frame, w, h) ==
  [y \in 1..h |-> [x \in 1..w |->
     IF y <= Len(frame) /\ x <= Len(frame[y]) THEN frame[y][x] ELSE FALSE]]

\* the variables of the encoder, which the editor's handlers do not touch
EditorRest ==
  /\ pc' = pc
  /\ UNCHANGED <<encVars, pixels, minCodeSize, lzwVars>>

\* lines 349-380: the effect that runs after the first render; anims are the
\* animations it may start from (an empty grid of the stored size, or what
\* the px parameter of the URL decodes to), saves what localStorage holds
MountFrom(anims, saves) ==
  /\ pc = "unmounted"
  /\ \E a \in anims :
       /\ widthState' = a.width
       /\ heightState' = a.height
       /\ framesState' = a.frames
       /\ historyRef' = << Snapshot(a.frames, 0) >>
  /\ currentFrame' = 0
  /\ historyIndexRef' = 0
  /\ savedAnimations' \in saves
  /\ mounted' = TRUE
  /\ pc' = "editor"
  /\ UNCHANGED <<batchingRef, encVars, pixels, minCodeSize, lzwVars>>

\* what PixelGrid may hand to onPixelsChange and onDrawEnd: the grid it was
\* given, with one cell set or untouched
SetCell(grid, x, y, v) == [grid EXCEPT ![y][x] = v]
Cells(grid) == UNION { { <<x, y>> : x \in 1..Len(grid[y]) } : y \in 1..Len(grid) }
NextPixels(grid) ==
  { grid } \cup { SetCell(grid, c[1], c[2], v) : c \in Cells(grid), v \in BOOLEAN }

\* handleDrawStart
HandleDrawStart ==
  /\ pc = "editor"
  /\ batchingRef' = TRUE
  /\ UNCHANGED <<mounted, widthState, heightState, framesState, currentFrame, historyRef,
                 historyIndexRef, savedAnimations>>
  /\ EditorRest

\* handlePixelsChange(next)
HandlePixelsChange ==
  /\ pc = "editor"
  /\ \E next \in NextPixels(framesState[currentFrame + 1]) :
       /\ framesState' = UpdatedAt(framesState, currentFrame, next)
       /\ IF ~batchingRef
          THEN Pushed(UpdatedAt(framesState, currentFrame, next), currentFrame)
          ELSE UNCHANGED <<historyRef, historyIndexRef>>
  /\ UNCHANGED <<mounted, widthState, heightState, currentFrame, batchingRef, savedAnimations>>
  /\ EditorRest

\* handleDrawEnd(finalPixels)
HandleDrawEnd ==
  /\ pc = "editor"
  /\ batchingRef' = FALSE
  /\ \E finalPixels \in NextPixels(framesState[currentFrame + 1]) :
       /\ framesState' = UpdatedAt(framesState, currentFrame, finalPixels)
       /\ Pushed(UpdatedAt(framesState, currentFrame, finalPixels), currentFrame)
  /\ UNCHANGED <<mounted, widthState, heightState, currentFrame, savedAnimations>>
  /\ EditorRest

\* what undo and redo read and write
EditorNow ==
  [history |-> historyRef, index |-> historyIndexRef,
   frames |-> framesState, currentFrame |-> currentFrame]

\* undo, on the refs and states e
Undone(e) ==
  IF e.index > 0
  THEN [e EXCEPT !.index = e.index - 1,
                 !.frames = CloneFrames(e.history[e.index].frames),
                 !.currentFrame = e.history[e.index].currentFrame]
  ELSE e

\* a faulty redo: it restores the snapshot it leaves
RedoneStale(e) ==
  IF e.index < Len(e.history) - 1
  THEN [e EXCEPT !.index = e.index + 1,
                 !.frames = CloneFrames(e.history[e.index + 1].frames),
                 !.currentFrame = e.history[e.index + 1].currentFrame]
  ELSE e

\* redo, on the refs and states e
Redone(e) ==
  IF e.index < Len(e.history) - 1
  THEN [e EXCEPT !.index = e.index + 1,
                 !.frames = CloneFrames(e.history[e.index + 2].frames),
                 !.currentFrame = e.history[e.index + 2].currentFrame]
  ELSE e

EditorBecomes(r) ==
  /\ historyRef' = r.history
  /\ historyIndexRef' = r.index
  /\ framesState' = r.frames
  /\ currentFrame' = r.currentFrame

\* undo (the key handler is registered whether mounted or not)
Undo ==
  /\ pc \in {"unmounted", "editor"}
  /\ EditorBecomes(Undone(EditorNow))
  /\ UNCHANGED <<mounted, widthState, heightState, batchingRef, savedAnimations>>
  /\ EditorRest

\* redo
Redo ==
  /\ pc \in {"unmounted", "editor"}
  /\ EditorBecomes(Redone(EditorNow))
  /\ UNCHANGED <<mounted, widthState, heightState, batchingRef, savedAnimations>>
  /\ EditorRest

\* the numbers typed into the width and height inputs
SizeInputsW == { -1, 1, 2 }
SizeInputsH == { -1, 1 }

\* handleApplySize, nw and nh the numbers parsed from the two inputs
HandleApplySize ==
  /\ pc = "editor"
  /\ \E nw \in SizeInputsW, nh \in SizeInputsH :
       /\ widthState' = AppliedSize(nw)
       /\ heightState' = AppliedSize(nh)
       /\ \E newFrames \in { [f \in 1..Len(framesState) |->
                                Resized(framesState[f], AppliedSize(nw), AppliedSize(nh))] } :
            /\ framesState' = newFrames
            /\ Pushed(newFrames, currentFrame)
  /\ UNCHANGED <<mounted, currentFrame, batchingRef, savedAnimations>>
  /\ EditorRest

\* handleAddFrame
HandleAddFrame ==
  /\ pc = "editor"
  /\ \E newFrames \in { InsertAt(framesState, currentFrame + 1,
                                  CreateEmptyGrid(widthState, heightState)) } :
       /\ framesState' = newFrames
       /\ currentFrame' = currentFrame + 1
       /\ Pushed(newFrames, currentFrame + 1)
  /\ UNCHANGED <<mounted, widthState, heightState, batchingRef, savedAnimations>>
  /\ EditorRest

\* handleDuplicateFrame
HandleDuplicateFrame ==
  /\ pc = "editor"
  /\ \E newFrames \in { InsertAt(framesState, currentFrame + 1,
                                  framesState[currentFrame + 1]) } :
       /\ framesState' = newFrames
       /\ currentFrame' = currentFrame + 1
       /\ Pushed(newFrames, currentFrame + 1)
  /\ UNCHANGED <<mounted, widthState, heightState, batchingRef, savedAnimations>>
  /\ EditorRest

\* a faulty handleDeleteFrame: the last frame can be deleted too
HandleDeleteFrameAlways ==
  /\ pc = "editor"
  /\ \E newFrames \in { RemoveAt(framesState, currentFrame) } :
       /\ framesState' = newFrames
       /\ currentFrame' = Min(currentFrame, Len(newFrames) - 1)
       /\ Pushed(newFrames, Min(currentFrame, Len(newFrames) - 1))
  /\ UNCHANGED <<mounted, widthState, heightState, batchingRef, savedAnimations>>
  /\ EditorRest

\* handleDeleteFrame
HandleDeleteFrame ==
  /\ pc = "editor"
  /\ IF Len(framesState) <= 1
     THEN UNCHANGED <<framesState, currentFrame, historyRef, historyIndexRef>>
     ELSE \E newFrames \in { RemoveAt(framesState, currentFrame) } :
            /\ framesState' = newFrames
            /\ currentFrame' = Min(currentFrame, Len(newFrames) - 1)
            /\ Pushed(newFrames, Min(currentFrame, Len(newFrames) - 1))
  /\ UNCHANGED <<mounted, widthState, heightState, batchingRef, savedAnimations>>
  /\ EditorRest

\* handleSelectFrame(index), index a frame of the timeline
HandleSelectFrame ==
  /\ pc = "editor"
  /\ \E index \in 0..(Len(framesState) - 1) : currentFrame' = index
  /\ UNCHANGED <<mounted, widthState, heightState, framesState, historyRef, historyIndexRef,
                 batchingRef, savedAnimations>>
  /\ EditorRest

\* handleLoadAnimation(save)
HandleLoadAnimation ==
  /\ pc = "editor"
  /\ \E k \in DOMAIN savedAnimations :
       /\ widthState' = savedAnimations[k].width
       /\ heightState' = savedAnimations[k].height
       /\ framesState' = CloneFrames(savedAnimations[k].frames)
       /\ historyRef' = << Snapshot(CloneFrames(savedAnimations[k].frames), 0) >>
  /\ currentFrame' = 0
  /\ historyIndexRef' = 0
  /\ UNCHANGED <<mounted, batchingRef, savedAnimations>>
  /\ EditorRest

\* the component as useState and useRef construct it, before the effect
InitEditorState ==
  /\ mounted = FALSE
  /\ widthState = DefaultSize /\ heightState = DefaultSize
  /\ framesState = << CreateEmptyGrid(DefaultSize, DefaultSize) >>
  /\ currentFrame = 0
  /\ historyRef = << >> /\ historyIndexRef = -1
  /\ batchingRef = FALSE
  /\ savedAnimations = << >>

\* everything of the encoder at rest
EncoderAbsent ==
  /\ args = NoArgs
  /\ out = << >>
  /\ gifWidth = 0 /\ gifHeight = 0
  /\ fgRgb = << >> /\ hasBg = FALSE /\ bgRgb = << >>
  /\ frameDelay = 0 /\ fi = 0
  /\ pixels = << >> /\ minCodeSize = 0
  /\ bitBuf = 0 /\ bitLen = 0 /\ rawBytes = << >>
  /\ table = << >> /\ nextCode = 0 /\ codeWidth = 0
  /\ prefix = 0 /\ i = 0
  /\ emitted = << >>
  /\ misses = << >>
  /\ returned = << >>

InitEditor ==
  /\ pc = "unmounted"
  /\ InitEditorState
  /\ EncoderAbsent

\* the animations the editor is mounted with: an empty grid of the stored
\* size, or the two frames of a shared link
MountAnimations ==
  { [width |-> w, height |-> h, frames |-> << CreateEmptyGrid(w, h) >>] :
      w \in { 1, 2 }, h \in { 1 } }
  \cup { [width |-> 1, height |-> 1, frames |-> << << <<TRUE>> >>, << <<FALSE>> >> >>] }

\* what localStorage holds of saved animations: nothing, or one animation
\* of two frames
StoredTwoFrames ==
  [name |-> "b", width |-> 1, height |-> 1, frames |-> << << <<FALSE>> >>, << <<TRUE>> >> >>]

Mount == MountFrom(MountAnimations, { << >>, << StoredTwoFrames >> })

\* the handlers that push a snapshot run while the history is short, and
\* frames are added while there are few
HistoryShort == historyIndexRef + 1 < MaxEdHistory
FramesFew == Len(framesState) < MaxEdFrames

NextEditor ==
  \/ Mount
  \/ Undo
  \/ Redo
  \/ HandleSelectFrame
  \/ HandleLoadAnimation
  \/ (HistoryShort /\ HandleDrawEnd)
  \/ (HistoryShort /\ HandleApplySize)
  \/ (HistoryShort /\ HandleDeleteFrame)
  \/ (HistoryShort /\ FramesFew /\ HandleAddFrame)
  \/ (HistoryShort /\ FramesFew /\ HandleDuplicateFrame)

SpecEditor == InitEditor /\ [][NextEditor]_vars

\* The history up to its limit: a 1x1 editor with one frame, drawn on,
\* undone, redone and loaded into.
OneByOne == [width |-> 1, height |-> 1, frames |-> << CreateEmptyGrid(1, 1) >>]
StoredSave == [name |-> "a", width |-> 1, height |-> 1, frames |-> << CreateEmptyGrid(1, 1) >>]

MountOneByOne == MountFrom({ OneByOne }, { << StoredSave >> })

NextHistory ==
  \/ MountOneByOne
  \/ HandleDrawStart
  \/ HandlePixelsChange
  \/ HandleDrawEnd
  \/ Undo
  \/ Redo
  \/ HandleLoadAnimation

SpecHistory == InitEditor /\ [][NextHistory]_vars

-----------------------------------------------------------------------------
(* The share link: encodeAnimationToHash and decodeAnimationFromHash.
   A string is the sequence of its characters. *)

MaxLinkSize == 64
MaxLinkFps == 24
MaxLinkFrames == 64

DigitChars == << "0", "1", "2", "3", "4", "5", "6", "7", "8", "9" >>

\* `${n}` for a natural number n
RECURSIVE Decimal(_)
Decimal(n) ==
  IF n < 10 THEN << DigitChars[n + 1] >>
  ELSE Append(Decimal(n \div 10), DigitChars[(n % 10) + 1])

IsDigit(c) == \E d \in 1..10 : DigitChars[d] = c
DigitValue(c) == (CHOOSE d \in 1..10 : DigitChars[d] = c) - 1

\* Number(str) for a string of digits; 0 stands for whatever is falsy: 0,
\* NaN (a string that is no number) and undefined (a part that is missing)
RECURSIVE DigitsValue(_)
DigitsValue(str) ==
  IF str = << >> THEN 0
  ELSE DigitsValue(SubSeq(str, 1, Len(str) - 1)) * 10 + DigitValue(str[Len(str)])
NumberOf(str) == IF \A k \in DOMAIN str : IsDigit(str[k]) THEN DigitsValue(str) ELSE 0

\* str.split(sep): the parts of str between the separators
RECURSIVE Split(_, _)
Split(str, sep) ==
  IF \A k \in DOMAIN str : str[k] # sep THEN << str >>
  ELSE LET at == CHOOSE k \in DOMAIN str : str[k] = sep /\ \A j \in 1..(k - 1) : str[j] # sep
       IN  << SubSeq(str, 1, at - 1) >> \o Split(SubSeq(str, at + 1, Len(str)), sep)
PartOf(parts, k) == IF k <= Len(parts) THEN parts[k] ELSE << >>

B64Alphabet ==
  << "A", "B", "C", "D", "E", "F", "G", "H", "I", "J", "K", "L", "M", "N", "O", "P",
     "Q", "R", "S", "T", "U", "V", "W", "X", "Y", "Z", "a", "b", "c", "d", "e", "f",
     "g", "h", "i", "j", "k", "l", "m", "n", "o", "p", "q", "r", "s", "t", "u", "v",
     "w", "x", "y", "z", "0", "1", "2", "3", "4", "5", "6", "7", "8", "9", "+", "/" >>
B64Pad == "="

\* btoa(String.fromCharCode(...bytes))
Btoa(bytes) ==
  LET ByteAt(k) == IF k <= Len(bytes) THEN bytes[k] ELSE 0
      Sextet(g, c) ==
        CASE c = 0 -> ByteAt(3 * g + 1) \div 4
          [] c = 1 -> (ByteAt(3 * g + 1) % 4) * 16 + ByteAt(3 * g + 2) \div 16
          [] c = 2 -> (ByteAt(3 * g + 2) % 16) * 4 + ByteAt(3 * g + 3) \div 64
          [] OTHER -> ByteAt(3 * g + 3) % 64
  IN  [k \in 1..(4 * ((Len(bytes) + 2) \div 3)) |->
         IF 3 * ((k - 1) \div 4) + ((k - 1) % 4) > Len(bytes)
         THEN B64Pad
         ELSE B64Alphabet[Sextet((k - 1) \div 4, (k - 1) % 4) + 1]]

\* atob(b64): the bytes, or no bytes and ok = FALSE where atob throws
Atob(b64) ==
  LET pads == IF Len(b64) >= 2 /\ b64[Len(b64)] = B64Pad /\ b64[Len(b64) - 1] = B64Pad THEN 2
              ELSE IF Len(b64) >= 1 /\ b64[Len(b64)] = B64Pad THEN 1 ELSE 0
      n == Len(b64) - pads
      Valid == /\ n % 4 # 1
               /\ pads > 0 => Len(b64) % 4 = 0
               /\ \A k \in 1..n : \E v \in 1..64 : B64Alphabet[v] = b64[k]
      Value(k) == (CHOOSE v \in 1..64 : B64Alphabet[v] = b64[k]) - 1
      ByteAt(k) ==
        ((Value(((8 * k) \div 6) + 1) * 64 + Value(((8 * k) \div 6) + 2))
           \div Pow2(4 - ((8 * k) % 6))) % 256
  IN  IF Valid THEN [ok |-> TRUE, bytes |-> [k \in 1..((n * 6) \div 8) |-> ByteAt(k - 1)]]
      ELSE [ok |-> FALSE, bytes |-> << >>]

\* "frame[y]?.[x] ? 1 : 0", x and y counted from 0
CellBit(frame, x, y) ==
  IF y + 1 \in DOMAIN frame /\ x + 1 \in DOMAIN frame[y + 1] /\ frame[y + 1][x + 1] THEN 1 ELSE 0

\* the bits of encodeAnimationToHash: frame by frame, row by row
AnimationBits(anim) ==
  [k \in 1..(Len(anim.frames) * anim.height * anim.width) |->
     CellBit(anim.frames[((k - 1) \div (anim.height * anim.width)) + 1],
             (k - 1) % anim.width,
             ((k - 1) % (anim.height * anim.width)) \div anim.width)]

Sum8(f) == f[0] + f[1] + f[2] + f[3] + f[4] + f[5] + f[6] + f[7]

\* a faulty packing: the first bit of eight is the lowest of the byte
PackBitsLowFirst(bits) ==
  [b \in 1..((Len(bits) + 7) \div 8) |->
     Sum8([j \in 0..7 |-> IF 8 * (b - 1) + j < Len(bits)
                            THEN bits[8 * (b - 1) + j + 1] * Pow2(j) ELSE 0])]

\* "byte |= bits[i + j] << (7 - j)": the first bit of eight is the highest
PackBits(bits) ==
  [b \in 1..((Len(bits) + 7) \div 8) |->
     Sum8([j \in 0..7 |-> IF 8 * (b - 1) + j < Len(bits)
                            THEN bits[8 * (b - 1) + j + 1] * Pow2(7 - j) ELSE 0])]

\* encodeAnimationToHash(anim)
EncodeAnimationToHash(anim) ==
  Decimal(anim.width) \o << "," >> \o Decimal(anim.height) \o << "," >>
    \o Decimal(anim.fps) \o << "," >> \o Decimal(Len(anim.frames))
    \o << "|" >> \o Btoa(PackBits(AnimationBits(anim)))

\* "(byte >> j) & 1" for j = 7 down to 0, byte after byte; k counted from 0
BitOfBytes(bytes, k) ==
  IF k < 8 * Len(bytes) THEN (bytes[(k \div 8) + 1] \div Pow2(7 - (k % 8))) % 2 ELSE 2

\* null
NoAnimation == [null |-> TRUE]

\* the frames decodeAnimationFromHash builds; "bits[idx] === 1" is false
\* past the last bit
FramesFromBytes(width, height, numFrames, bytes) ==
  [f \in 1..numFrames |-> [y \in 1..height |-> [x \in 1..width |->
     BitOfBytes(bytes, ((f - 1) * height + (y - 1)) * width + (x - 1)) = 1]]]

\* decodeAnimationFromHash from "const binaryStr = atob(b64)" on
DecodeBody(w, h, f, n, decoded) ==
  IF ~decoded.ok THEN NoAnimation
  ELSE [width  |-> Min(MaxLinkSize, Max(1, w)),
        height |-> Min(MaxLinkSize, Max(1, h)),
        frames |-> FramesFromBytes(Min(MaxLinkSize, Max(1, w)), Min(MaxLinkSize, Max(1, h)),
                                   Min(MaxLinkFrames, Max(1, n)), decoded.bytes),
        fps    |-> Min(MaxLinkFps, Max(1, f))]

\* decodeAnimationFromHash from "const [w, h, f, n] = ..." on
DecodeNumbers(nums, b64) ==
  IF \E k \in 1..4 : NumberOf(PartOf(nums, k)) = 0 THEN NoAnimation
  ELSE DecodeBody(NumberOf(PartOf(nums, 1)), NumberOf(PartOf(nums, 2)),
                  NumberOf(PartOf(nums, 3)), NumberOf(PartOf(nums, 4)), Atob(b64))

DecodeParts(header, b64) ==
  IF header = << >> \/ b64 = << >> THEN NoAnimation
  ELSE DecodeNumbers(Split(header, ","), b64)

\* decodeAnimationFromHash(hash)
DecodeAnimationFromHash(hash) ==
  DecodeParts(PartOf(Split(hash, "|"), 1), PartOf(Split(hash, "|"), 2))

\* The animations shared: every animation of up to MaxShareBits cells, and
\* some of many cells or many frames with a fixed pattern of pixels.
ShareFps == { 1, MaxLinkFps }

SmallShapes ==
  { t \in (1..MaxShareBits) \X (1..MaxShareBits) \X (1..MaxShareBits) :
      t[1] * t[2] * t[3] <= MaxShareBits }

SmallAnimations ==
  UNION { { [width |-> t[1], height |-> t[2], fps |-> f, frames |-> fs] :
              fs \in [1..t[3] -> [1..t[2] -> [1..t[1] -> BOOLEAN]]], f \in ShareFps } :
          t \in SmallShapes }

Patterned(w, h, n, f) ==
  [width |-> w, height |-> h, fps |-> f,
   frames |-> [k \in 1..n |-> [y \in 1..h |-> [x \in 1..w |-> (7 * k + 3 * y + x) % 5 < 2]]]]

LargeAnimations ==
  { Patterned(MaxLinkSize, MaxLinkSize, 1, 5),
    Patterned(3, 3, 2, 12),
    Patterned(5, 4, 1, 10),
    Patterned(1, 1, MaxLinkFrames, 5),
    Patterned(2, 1, MaxLinkFrames, 5),
    Patterned(1, 1, MaxLinkFrames + 1, 5) }

ShareRest ==
  UNCHANGED <<edVars, args, gifWidth, gifHeight, fgRgb, hasBg, bgRgb, frameDelay, fi,
              pixels, minCodeSize, lzwVars>>

\* handleShareAnimation: the hash of the animation
ShareEncode ==
  /\ pc = "share"
  /\ out' = EncodeAnimationToHash(args)
  /\ pc' = "shared"
  /\ UNCHANGED returned
  /\ ShareRest

\* the mount effect of the page opened with the link
ShareDecode ==
  /\ pc = "shared"
  /\ returned' = << DecodeAnimationFromHash(out) >>
  /\ pc' = "opened"
  /\ UNCHANGED out
  /\ ShareRest

InitShare ==
  /\ pc = "share"
  /\ args \in SmallAnimations \cup LargeAnimations
  /\ InitLocals

NextShare == ShareEncode \/ ShareDecode

SpecShare == InitShare /\ [][NextShare]_vars

-----------------------------------------------------------------------------
(* bresenhamLine, the points of a shift-click line *)

Abs(n) == IF n < 0 THEN -n ELSE n

\* more iterations than any line between the endpoints drawn from needs
MaxLineSteps == 4 * MaxCoord + 4

\* the constants of one call: dx, dy, sx, sy and the end point
LineOf(x0, y0, x1, y1) ==
  [x1 |-> x1, y1 |-> y1, dx |-> Abs(x1 - x0), dy |-> Abs(y1 - y0),
   sx |-> IF x0 < x1 THEN 1 ELSE -1, sy |-> IF y0 < y1 THEN 1 ELSE -1]

\* a faulty loop: the y step leaves err as it is
RECURSIVE LineLoopStaleErr(_, _, _, _, _, _)
LineLoopStaleErr(ln, points, cx, cy, err, steps) ==
  IF steps = 0 THEN [points |-> points, done |-> FALSE]
  ELSE IF cx = ln.x1 /\ cy = ln.y1 THEN [points |-> Append(points, <<cx, cy>>), done |-> TRUE]
  ELSE LineLoopStaleErr(ln, Append(points, <<cx, cy>>),
                        IF 2 * err > -ln.dy THEN cx + ln.sx ELSE cx,
                        IF 2 * err < ln.dx THEN cy + ln.sy ELSE cy,
                        err - (IF 2 * err > -ln.dy THEN ln.dy ELSE 0),
                        steps - 1)

\* the while loop from its iteration with the locals points, cx, cy and err,
\* for at most `steps` iterations; done tells whether it reached the break
RECURSIVE LineLoop(_, _, _, _, _, _)
LineLoop(ln, points, cx, cy, err, steps) ==
  IF steps = 0 THEN [points |-> points, done |-> FALSE]
  ELSE IF cx = ln.x1 /\ cy = ln.y1 THEN [points |-> Append(points, <<cx, cy>>), done |-> TRUE]
  ELSE LineLoop(ln, Append(points, <<cx, cy>>),
                IF 2 * err > -ln.dy THEN cx + ln.sx ELSE cx,
                IF 2 * err < ln.dx THEN cy + ln.sy ELSE cy,
                err - (IF 2 * err > -ln.dy THEN ln.dy ELSE 0)
                    + (IF 2 * err < ln.dx THEN ln.dx ELSE 0),
                steps - 1)

\* bresenhamLine(x0, y0, x1, y1)
BresenhamLine(x0, y0, x1, y1) ==
  LineLoop(LineOf(x0, y0, x1, y1), << >>, x0, y0, Abs(x1 - x0) - Abs(y1 - y0), MaxLineSteps)

Coords == (-MaxCoord)..MaxCoord

InitLine ==
  /\ pc = "line"
  /\ args \in [x0 : Coords, y0 : Coords, x1 : Coords, y1 : Coords]
  /\ InitLocals

\* one call of bresenhamLine
LineCall ==
  /\ pc = "line"
  /\ returned' = << BresenhamLine(args.x0, args.y0, args.x1, args.y1) >>
  /\ pc' = "lineReturned"
  /\ UNCHANGED out
  /\ ShareRest

NextLine == LineCall

SpecLine == InitLine /\ [][NextLine]_vars

-----------------------------------------------------------------------------
(* Reading a GIF byte sequence back: the structure of the file *)

PreambleLen == 6 + 7 + 12 + 19

\* b[p] starts a well-formed sub-block chain
RECURSIVE ChainOk(_, _)
ChainOk(b, p) ==
  /\ p <= Len(b)
  /\ \/ b[p] = 0
     \/ /\ p + b[p] + 1 <= Len(b)
        /\ ChainOk(b, p + b[p] + 1)

\* the position of the chain's terminator
RECURSIVE ChainEnd(_, _)
ChainEnd(b, p) == IF b[p] = 0 THEN p ELSE ChainEnd(b, p + b[p] + 1)

\* the chain's payload: the chunks without their length bytes
RECURSIVE ChainData(_, _)
ChainData(b, p) ==
  IF b[p] = 0 THEN << >>
  ELSE [k \in 1..b[p] |-> b[p + k]] \o ChainData(b, p + b[p] + 1)

\* a frame block at p: 8-byte extension, 10-byte descriptor, code size, chain
BlockOk(b, p) ==
  /\ p + 19 <= Len(b)
  /\ b[p] = 33 /\ b[p + 1] = 249 /\ b[p + 2] = 4 /\ b[p + 7] = 0
  /\ b[p + 8] = 44
  /\ b[p + 18] = 2
  /\ ChainOk(b, p + 19)

\* the frame blocks from p on: [ok, blocks (their start positions), rest]
RECURSIVE ParseBlocks(_, _, _)
ParseBlocks(b, p, acc) ==
  IF p <= Len(b) /\ b[p] = 33
  THEN IF BlockOk(b, p)
       THEN ParseBlocks(b, ChainEnd(b, p + 19) + 1, Append(acc, p))
       ELSE [ok |-> FALSE, blocks |-> acc, rest |-> p]
  ELSE [ok |-> TRUE, blocks |-> acc, rest |-> p]

Parsed(b) == ParseBlocks(b, PreambleLen + 1, << >>)

LoopExtensionBytes == <<33, 255, 11, 78, 69, 84, 83, 67, 65, 80, 69, 50, 46, 48, 3, 1, 0, 0, 0>>
MagicBytes == <<71, 73, 70, 56, 57, 97>>

-----------------------------------------------------------------------------
(* Reading a GIF byte sequence back: a GIF LZW decoder *)

BitAt(b, n) == (b[(n \div 8) + 1] \div Pow2(n % 8)) % 2

RECURSIVE ReadBits(_, _, _)
ReadBits(b, n, w) == IF w = 0 THEN 0 ELSE BitAt(b, n) + 2 * ReadBits(b, n + 1, w - 1)

DecTable0(mcs) == [c \in 0..(ClearCodeOf(mcs) - 1) |-> << c >>]

DecInit(mcs) ==
  [bitpos |-> 0, width |-> mcs + 1, next |-> EoiCodeOf(mcs) + 1, prev |-> -1,
   tbl |-> DecTable0(mcs), pix |-> << >>, status |-> "run", widths |-> << >>]

\* the decoder reads one code
DecStep(b, mcs, d) ==
  IF d.bitpos + d.width > 8 * Len(b) THEN [d EXCEPT !.status = "truncated"]
  ELSE
    LET code == ReadBits(b, d.bitpos, d.width)
        d1   == [d EXCEPT !.bitpos = d.bitpos + d.width,
                          !.widths = Append(d.widths, d.width)]
    IN  IF code = ClearCodeOf(mcs)
        THEN [d1 EXCEPT !.width = mcs + 1, !.next = EoiCodeOf(mcs) + 1,
                        !.prev = -1, !.tbl = DecTable0(mcs)]
        ELSE IF code = EoiCodeOf(mcs) THEN [d1 EXCEPT !.status = "eoi"]
        ELSE IF d.prev = -1
        THEN IF code < ClearCodeOf(mcs)
             THEN [d1 EXCEPT !.pix = d.pix \o << code >>, !.prev = code]
             ELSE [d1 EXCEPT !.status = "bad"]
        ELSE IF code > d.next \/ (code = d.next /\ d.next > MaxTableCode)
        THEN [d1 EXCEPT !.status = "bad"]
        ELSE
          LET old  == d.tbl[d.prev]
              s    == IF code < d.next THEN d.tbl[code] ELSE Append(old, old[1])
              room == d.next <= MaxTableCode
              nx   == IF room THEN d.next + 1 ELSE d.next
          IN  [d1 EXCEPT !.pix = d.pix \o s,
                         !.prev = code,
                         !.tbl = IF room THEN (d.next :> Append(old, s[1])) @@ d.tbl
                                 ELSE d.tbl,
                         !.next = nx,
                         !.width = IF room /\ nx = Pow2(d.width) /\ d.width < MaxCodeWidth
                                   THEN d.width + 1 ELSE d.width]

RECURSIVE DecRun(_, _, _)
DecRun(b, mcs, d) == IF d.status = "run" THEN DecRun(b, mcs, DecStep(b, mcs, d)) ELSE d

GifLzwDecode(b, mcs) == DecRun(b, mcs, DecInit(mcs))

\* the indices a reader expects for a frame: scaled position (X, Y) shows
\* source pixel (X div scale, Y div scale)
ExpectedIndices(frame, width, height, scale) ==
  [p \in 1..((width * scale) * (height * scale)) |->
     LET X == (p - 1) % (width * scale)
         Y == (p - 1) \div (width * scale)
     IN  IF frame[(Y \div scale) + 1][(X \div scale) + 1] THEN 1 ELSE 0]

-----------------------------------------------------------------------------
(* Claims *)

Done == pc = "done" /\ returned # << >>
LastReturned == returned[Len(returned)]

\* C1: every byte sequence encodeGIF returns begins with the six bytes
\* "GIF89a" (0x47 0x49 0x46 0x38 0x39 0x61) and ends with the byte 0x3B.
C1_MagicAndTrailer ==
  \A k \in DOMAIN returned :
    LET b == returned[k].bytes
    IN  /\ Len(b) >= 7
        /\ SubSeq(b, 1, 6) = <<71, 73, 70, 56, 57, 97>>
        /\ b[Len(b)] = 59

C1_Witness ==
  /\ Done
  /\ Len(LastReturned.args.frames) = 0
  /\ Len(LastReturned.bytes) = PreambleLen + 1

\* C2: for every frame of every returned file, a GIF LZW decoder (minimum
\* code size 2) run over the frame's sub-block payload yields exactly
\* width*scale*height*scale indices in row-major order, the index at scaled
\* position (X, Y) being 1 iff source pixel (X div scale, Y div scale) is on.
C2_RoundTrip ==
  \A k \in DOMAIN returned :
    LET b  == returned[k].bytes
        a  == returned[k].args
        ps == Parsed(b)
    IN  /\ ps.ok
        /\ Len(ps.blocks) = Len(a.frames)
        /\ \A f \in 1..Len(a.frames) :
             LET d == GifLzwDecode(ChainData(b, ps.blocks[f] + 19), b[ps.blocks[f] + 18])
             IN  /\ d.status # "bad"
                 /\ d.pix = ExpectedIndices(a.frames[f], a.width, a.height, a.scale)

\* a 2x2 frame with the diagonal on, scaled by 3, decodes to its 36 indices
C2_Witness ==
  /\ Done
  /\ LastReturned.args.width = 2
  /\ LastReturned.args.height = 2
  /\ LastReturned.args.scale = 3
  /\ LastReturned.args.frames = << Grid(2, 2, 9) >>
  /\ LET b == LastReturned.bytes
         p == Parsed(b).blocks[1]
         d == GifLzwDecode(ChainData(b, p + 19), b[p + 18])
     IN  /\ Len(d.pix) = 36
         /\ d.pix = ExpectedIndices(Grid(2, 2, 9), 2, 2, 3)
         /\ d.pix[1] = 1 /\ d.pix[4] = 0 /\ d.pix[36] = 1

\* the number of positions q with b[q] = x, b[q + 1] = y
CountPair(b, x, y) == Cardinality({ q \in 1..(Len(b) - 1) : b[q] = x /\ b[q + 1] = y })
CountByte(b, x) == Cardinality({ q \in 1..Len(b) : b[q] = x })

\* position q of b lies outside the dimension words, the colour table, the
\* delay words and the image data sub-blocks
OutsideData(b, blocks, q) ==
  /\ q \notin 7..10
  /\ q \notin 14..25
  /\ \A f \in 1..Len(blocks) :
       LET p == blocks[f]
       IN  /\ q \notin (p + 4)..(p + 5)
           /\ q \notin (p + 13)..(p + 16)
           /\ q \notin (p + 19)..ChainEnd(b, p + 19)

\* C3 (as stated): for N frames the returned bytes contain exactly N
\* occurrences of the byte pair 0x21 0xF9 and exactly N occurrences of the
\* byte 0x2C, counted over the whole output.
C3_ExactMarkerCounts ==
  \A k \in DOMAIN returned :
    /\ CountPair(returned[k].bytes, 33, 249) = Len(returned[k].args.frames)
    /\ CountByte(returned[k].bytes, 44) = Len(returned[k].args.frames)

\* C3 (amended): for N frames the returned bytes contain at least N
\* occurrences of 0x21 0xF9 and of 0x2C, and exactly N of each when the bytes
\* of the dimension words, the colour table, the delay words and the image
\* data sub-blocks are not counted.
C3_MarkerCountsOutsideData ==
  \A k \in DOMAIN returned :
    LET b  == returned[k].bytes
        n  == Len(returned[k].args.frames)
        ps == Parsed(b)
    IN  /\ ps.ok
        /\ CountPair(b, 33, 249) >= n
        /\ CountByte(b, 44) >= n
        /\ Cardinality({ q \in 1..(Len(b) - 1) :
                           /\ b[q] = 33 /\ b[q + 1] = 249
                           /\ OutsideData(b, ps.blocks, q)
                           /\ OutsideData(b, ps.blocks, q + 1) }) = n
        /\ Cardinality({ q \in 1..Len(b) :
                           b[q] = 44 /\ OutsideData(b, ps.blocks, q) }) = n

C3_Witness ==
  /\ Done
  /\ Len(LastReturned.args.frames) = 1
  /\ CountPair(LastReturned.bytes, 33, 249) = 2
  /\ CountByte(LastReturned.bytes, 44) = 2

\* C4: the returned bytes are a 44-byte preamble, then one block per input
\* frame in input order (8-byte Graphics Control Extension, 10-byte Image
\* Descriptor, the byte 0x02, a sub-block chain ending with 0x00), then the
\* trailer byte; while the frames are written, the blocks written so far are
\* those of the frames already visited, and the image data of block f
\* decodes to frame f.
C4_BlockStructure ==
  /\ pc \in {"frameLoop", "done"} =>
       LET ps == Parsed(out)
       IN  /\ SubSeq(out, 1, 6) = MagicBytes
           /\ SubSeq(out, 26, PreambleLen) = LoopExtensionBytes
           /\ ps.ok
           /\ Len(ps.blocks) = fi - 1
           /\ fi - 1 <= Len(args.frames)
           /\ (ps.blocks # << >> => ps.blocks[1] = PreambleLen + 1)
           /\ IF pc = "done"
              THEN ps.rest = Len(out) /\ out[ps.rest] = 59
              ELSE ps.rest = Len(out) + 1
  /\ \A k \in DOMAIN returned :
       LET b  == returned[k].bytes
           a  == returned[k].args
           ps == Parsed(b)
       IN  /\ ps.ok
           /\ Len(ps.blocks) = Len(a.frames)
           /\ ps.rest = Len(b)
           /\ b[ps.rest] = 59
           /\ \A f \in 1..Len(a.frames) :
                GifLzwDecode(ChainData(b, ps.blocks[f] + 19), b[ps.blocks[f] + 18]).pix
                  = ExpectedIndices(a.frames[f], a.width, a.height, a.scale)

\* three different frames, returned as three blocks
C4_Witness ==
  /\ Done
  /\ LastReturned.args.frames = << Grid(2, 1, 1), Grid(2, 1, 2), Grid(2, 1, 0) >>
  /\ Len(Parsed(LastReturned.bytes).blocks) = 3
  /\ Parsed(LastReturned.bytes).blocks[1] = PreambleLen + 1
  /\ Parsed(LastReturned.bytes).blocks[3] > PreambleLen + 40

\* the colours of the inputs, written out
KnownRgb(c) ==
  CASE c = ColorBlack -> <<0, 0, 0>>
    [] c = ColorMarker -> <<33, 249, 44>>
    [] c = ColorUpper -> <<255, 128, 10>>
    [] c = ColorNoHash -> <<18, 171, 239>>

C6_EmitWidthBounds ==
  \A k \in DOMAIN emitted :
    EmitWidthOf(emitted[k]) >= 3 /\ EmitWidthOf(emitted[k]) <= 12

\* codes were written at width 12, the last of them the Clear code of a full
\* table, and the width is back at 3
C6_Witness ==
  /\ pc = "lzwLoop"
  /\ Len(emitted) > 2
  /\ emitted[Len(emitted)] = Emit(4, 12)
  /\ codeWidth = 3

\* C7: lzwCompress of the empty sequence, minimum code size 2, emits Clear (4)
\* then EOI (5), both 3 bits wide, and returns the single byte 0x2C.
C7_EmptyInput ==
  (pc = "lzwReturned" /\ pixels = << >>) =>
    /\ emitted = << Emit(4, 3), Emit(5, 3) >>
    /\ rawBytes = << 44 >>

C7_Witness == pc = "lzwReturned" /\ pixels = << >> /\ minCodeSize = 2 /\ Len(rawBytes) = 1

\* round-half-up(100 / c): the integer d with d - 1/2 <= 100/c < d + 1/2
HalfUp100(c) == CHOOSE d \in 0..200 : 2 * d * c - c <= 200 /\ 200 < 2 * d * c + c

\* the delay words of the frame blocks of b
DelayWords(b) ==
  LET blocks == Parsed(b).blocks
  IN  [f \in 1..Len(blocks) |-> b[blocks[f] + 4] + 256 * b[blocks[f] + 5]]

C9_Deterministic ==
  \A j, k \in DOMAIN returned :
    returned[j].args = returned[k].args => returned[j].bytes = returned[k].bytes

C9_Witness ==
  /\ Done
  /\ Len(returned) = 3
  /\ returned[1].args = returned[3].args
  /\ returned[2].args # returned[1].args
  /\ Len(returned[1].args.frames) = 1
  /\ Len(returned[2].args.frames) = 2

\* C10: after the two dimension words the Logical Screen Descriptor holds a
\* flags byte with bit 7 set, colour-resolution field (bits 6-4) 1, meaning
\* 2 bits per primary, and table-size field (bits 2-0) 1, then two zero bytes.
C10_LsdFlags ==
  \A k \in DOMAIN returned :
    LET b == returned[k].bytes
    IN  /\ (b[11] \div 128) % 2 = 1
        /\ (b[11] \div 16) % 8 = 1
        /\ b[11] % 8 = 1
        /\ b[12] = 0
        /\ b[13] = 0

\* the packed bytes of the Graphics Control Extensions of b
GcePacked(b) ==
  LET blocks == Parsed(b).blocks
  IN  [f \in 1..Len(blocks) |-> b[blocks[f] + 3]]

WordAt(b, p) == b[p] + 256 * b[p + 1]

\* C12: every frame's Image Descriptor has left 0, top 0, flags byte 0, and
\* width and height words equal to width*scale and height*scale mod 2^16,
\* the same words as in the Logical Screen Descriptor.
C12_ImageDescriptor ==
  \A k \in DOMAIN returned :
    LET b  == returned[k].bytes
        a  == returned[k].args
        ps == Parsed(b)
    IN  /\ ps.ok
        /\ Len(ps.blocks) = Len(a.frames)
        /\ WordAt(b, 7) = (a.width * a.scale) % 65536
        /\ WordAt(b, 9) = (a.height * a.scale) % 65536
        /\ \A f \in 1..Len(ps.blocks) :
             LET p == ps.blocks[f] + 8
             IN  /\ b[p] = 44
                 /\ WordAt(b, p + 1) = 0
                 /\ WordAt(b, p + 3) = 0
                 /\ WordAt(b, p + 5) = (a.width * a.scale) % 65536
                 /\ WordAt(b, p + 7) = (a.height * a.scale) % 65536
                 /\ WordAt(b, p + 5) = WordAt(b, 7)
                 /\ WordAt(b, p + 7) = WordAt(b, 9)
                 /\ b[p + 9] = 0

\* a frame 65537 wide at scale 2: the width word wraps to 2
C12_Witness ==
  /\ Done
  /\ LastReturned.args.width = 65537
  /\ LastReturned.args.scale = 2
  /\ Len(LastReturned.args.frames) = 1
  /\ WordAt(LastReturned.bytes, Parsed(LastReturned.bytes).blocks[1] + 13) = 2

\* the length bytes of the chain starting at b[p]
RECURSIVE ChainLens(_, _)
ChainLens(b, p) == IF b[p] = 0 THEN << >> ELSE << b[p] >> \o ChainLens(b, p + b[p] + 1)

CeilDiv(a, b) == (a + b - 1) \div b

\* C13: packSubBlocks(d) is a chain of chunks, each a length byte L in 1..255
\* followed by exactly L data bytes, then one 0x00 terminator; every chunk
\* but the last has L = 255, the payloads concatenated are d, the total
\* length is len(d) + ceil(len(d)/255) + 1, and for empty d it is [0x00].
C13_PackSubBlocks ==
  pc = "packReturned" =>
    LET d    == rawBytes
        r    == out
        lens == ChainLens(r, 1)
    IN  /\ ChainOk(r, 1)
        /\ ChainEnd(r, 1) = Len(r)
        /\ \A j \in 1..Len(lens) :
             /\ lens[j] \in 1..255
             /\ (j < Len(lens) => lens[j] = 255)
        /\ ChainData(r, 1) = d
        /\ Len(r) = Len(d) + CeilDiv(Len(d), 255) + 1
        /\ (d = << >> => r = << 0 >>)

\* 511 bytes of zeros packed as chunks of 255, 255 and 1 bytes
C13_Witness ==
  /\ pc = "packReturned"
  /\ Len(rawBytes) = 511
  /\ rawBytes[1] = 0
  /\ ChainLens(out, 1) = << 255, 255, 1 >>
  /\ Len(out) = 515

\* the source pixel at row r, column c (0-based) of the frame is on; a
\* missing row or cell is off
SourceOn(frame, r, c) ==
  /\ r + 1 \in DOMAIN frame
  /\ c + 1 \in DOMAIN frame[r + 1]
  /\ frame[r + 1][c + 1]

\* C14: the pixel buffer of a frame has (width*scale)*(height*scale) entries,
\* each 0 or 1 and so below the Clear code 4, and the entry at flat position
\* Y*(width*scale)+X is 1 exactly when source pixel (Y div scale, X div scale)
\* is on, a missing row or cell being off.
C14_PixelBuffer ==
  pc \in {"lzwStart", "lzwLoop", "lzwReturned"} =>
    LET gw == args.width * args.scale
        gh == args.height * args.scale
    IN  /\ Len(pixels) = gw * gh
        /\ \A Y \in 0..(gh - 1), X \in 0..(gw - 1) :
             LET e == pixels[Y * gw + X + 1]
             IN  /\ e \in {0, 1}
                 /\ e < ClearCodeOf(minCodeSize)
                 /\ e = 1 <=> SourceOn(args.frames[fi], Y \div args.scale, X \div args.scale)

\* a 2x2 call at scale 2 whose frame has a single row with a single cell
C14_Witness ==
  /\ pc = "lzwStart"
  /\ args.width = 2 /\ args.height = 2 /\ args.scale = 2
  /\ args.frames = << << <<TRUE>> >> >>
  /\ pixels = << 1, 1, 0, 0,  1, 1, 0, 0,  0, 0, 0, 0,  0, 0, 0, 0 >>

\* the indices a reader decodes from the frame block of b that starts at p
DecodedAt(b, p) == GifLzwDecode(ChainData(b, p + 19), b[p + 18])

\* C15: encodeGIF(2, 1, [[[true, false]]], 5, 1) with no background returns
\* a file with logical screen 2x1 and exactly one frame, whose Graphics
\* Control Extension has the transparency flag set and delay 20, and whose
\* image data decodes to the two indices 1, 0.
C15_ScenarioTwoByOne ==
  \A k \in DOMAIN returned :
    returned[k].args = ScenarioTwoByOne =>
      LET b  == returned[k].bytes
          ps == Parsed(b)
      IN  /\ WordAt(b, 7) = 2 /\ WordAt(b, 9) = 1
          /\ ps.ok
          /\ Len(ps.blocks) = 1
          /\ ps.rest = Len(b) /\ b[Len(b)] = 59
          /\ b[ps.blocks[1] + 3] % 2 = 1
          /\ WordAt(b, ps.blocks[1] + 4) = 20
          /\ WordAt(b, ps.blocks[1] + 13) = 2 /\ WordAt(b, ps.blocks[1] + 15) = 1
          /\ DecodedAt(b, ps.blocks[1]).status # "bad"
          /\ DecodedAt(b, ps.blocks[1]).pix = << 1, 0 >>

\* the call of the scenario has returned
C15_Witness ==
  /\ Done
  /\ LastReturned.args = ScenarioTwoByOne
  /\ Len(Parsed(LastReturned.bytes).blocks) = 1
  /\ Len(DecodedAt(LastReturned.bytes, Parsed(LastReturned.bytes).blocks[1]).pix) = 2

\* C16: encodeGIF(1, 1, [[[true]], [[false]]], 10, 4) with no background
\* returns a file with logical screen 4x4 and exactly two frames in order,
\* the first decoding to 16 indices 1 and the second to 16 indices 0, each
\* with delay 10 centiseconds.
C16_ScenarioTwoFrames ==
  \A k \in DOMAIN returned :
    returned[k].args = ScenarioTwoFrames =>
      LET b  == returned[k].bytes
          ps == Parsed(b)
      IN  /\ WordAt(b, 7) = 4 /\ WordAt(b, 9) = 4
          /\ ps.ok
          /\ Len(ps.blocks) = 2
          /\ ps.rest = Len(b) /\ b[Len(b)] = 59
          /\ ps.blocks[1] < ps.blocks[2]
          /\ \A f \in 1..2 :
               /\ WordAt(b, ps.blocks[f] + 4) = 10
               /\ WordAt(b, ps.blocks[f] + 13) = 4 /\ WordAt(b, ps.blocks[f] + 15) = 4
               /\ DecodedAt(b, ps.blocks[f]).status # "bad"
          /\ DecodedAt(b, ps.blocks[1]).pix = [p \in 1..16 |-> 1]
          /\ DecodedAt(b, ps.blocks[2]).pix = [p \in 1..16 |-> 0]

\* the call of the scenario has returned with its two frames
C16_Witness ==
  /\ Done
  /\ LastReturned.args = ScenarioTwoFrames
  /\ Len(Parsed(LastReturned.bytes).blocks) = 2
  /\ Len(DecodedAt(LastReturned.bytes, Parsed(LastReturned.bytes).blocks[2]).pix) = 16

\* no pair (prefix, symbol) has a code: the table holds the literals only
LiteralsOnly(t) ==
  /\ Len(t) = 6
  /\ \A c \in DOMAIN t : \A sy \in DOMAIN t[c] : t[c][sy] = NoEntry

\* C17: every call of lzwCompress starts from the same state (literals only,
\* nextCode 6, codeWidth 3) and emits Clear (4) at 3 bits first, so that in a
\* returned file two frames with the same pixels have the same compressed
\* sub-blocks, whatever frames come before them.
C17_FreshStatePerFrame ==
  /\ pc \in {"lzwLoop", "lzwReturned"} =>
       /\ emitted # << >>
       /\ EmitCodeOf(emitted[1]) = 4 /\ EmitWidthOf(emitted[1]) = 3
  /\ (pc = "lzwLoop" /\ Len(emitted) = 1) =>
       /\ LiteralsOnly(table)
       /\ nextCode = 6
       /\ codeWidth = 3
       /\ i = 1 /\ prefix = pixels[1]
       /\ rawBytes = << >> /\ bitBuf = 4 /\ bitLen = 3
  /\ (pc = "lzwReturned" /\ pixels = << >>) =>
       /\ LiteralsOnly(table) /\ nextCode = 6 /\ codeWidth = 3
  /\ \A k \in DOMAIN returned :
       LET b  == returned[k].bytes
           a  == returned[k].args
           ps == Parsed(b)
       IN  /\ ps.ok
           /\ Len(ps.blocks) = Len(a.frames)
           /\ \A f \in 1..Len(ps.blocks) :
                /\ ChainData(b, ps.blocks[f] + 19) # << >>
                /\ ChainData(b, ps.blocks[f] + 19)[1] % 8 = 4
           /\ \A f, g \in 1..Len(ps.blocks) :
                a.frames[f] = a.frames[g] =>
                  ChainData(b, ps.blocks[f] + 19) = ChainData(b, ps.blocks[g] + 19)

\* a returned file of three frames, the third equal to the first and not to
\* the second, whose first and third compressed blocks are equal
C17_Witness ==
  /\ Done
  /\ Len(LastReturned.args.frames) = 3
  /\ LastReturned.args.frames[1] = LastReturned.args.frames[3]
  /\ LastReturned.args.frames[1] # LastReturned.args.frames[2]
  /\ LET b  == LastReturned.bytes
         ps == Parsed(b)
     IN  /\ Len(ps.blocks) = 3
         /\ ChainData(b, ps.blocks[1] + 19) = ChainData(b, ps.blocks[3] + 19)
         /\ ChainData(b, ps.blocks[1] + 19) # ChainData(b, ps.blocks[2] + 19)

\* the position in the log of the last miss that reset the table, 0 if none
LastReset(log) ==
  LET rs == { k \in DOMAIN log : ~log[k].inserted }
  IN  IF rs = {} THEN 0 ELSE CHOOSE k \in rs : \A j \in rs : j <= k

\* the pairs that have a code in table t
Entries(t) == { <<c, sy>> \in (DOMAIN t) \X (1..4) : t[c][sy] # NoEntry }

\* C18: on a miss while nextCode < 4096 the pair (prefix, symbol) is inserted
\* with the old nextCode as its code, nextCode grows by exactly 1, and
\* codeWidth grows by exactly 1 iff the new nextCode exceeds 2^codeWidth and
\* codeWidth < 12; codeWidth never decreases except on a full reset.
C18_InsertOnMiss ==
  pc \in {"lzwLoop", "lzwReturned"} =>
    /\ \A k \in DOMAIN misses :
         LET m == misses[k]
         IN  \* nothing but a miss changes nextCode and codeWidth
             /\ m.nextCode = (IF k = 1 THEN 6 ELSE misses[k - 1].newNextCode)
             /\ m.codeWidth = (IF k = 1 THEN 3 ELSE misses[k - 1].newCodeWidth)
             /\ m.nextCode < 4096 =>
                  /\ m.inserted
                  /\ m.code = m.nextCode
                  /\ m.newNextCode = m.nextCode + 1
                  /\ m.newCodeWidth =
                       (IF m.newNextCode > Pow2(m.codeWidth) /\ m.codeWidth < 12
                        THEN m.codeWidth + 1 ELSE m.codeWidth)
             /\ m.newCodeWidth < m.codeWidth => ~m.inserted
    /\ nextCode = (IF misses = << >> THEN 6 ELSE misses[Len(misses)].newNextCode)
    /\ codeWidth = (IF misses = << >> THEN 3 ELSE misses[Len(misses)].newCodeWidth)
    \* the table holds the pairs inserted since the last reset, and no other
    /\ \A k \in (LastReset(misses) + 1)..Len(misses) :
         /\ TableHas(table, misses[k].prefix, misses[k].sym)
         /\ TableGet(table, misses[k].prefix, misses[k].sym) = misses[k].code
    /\ Cardinality(Entries(table)) = Len(misses) - LastReset(misses)

\* the third miss of a call inserts code 8 at width 3 and makes the width 4
C18_Witness ==
  /\ pc = "lzwLoop"
  /\ Len(misses) = 3
  /\ misses[3].inserted
  /\ misses[3].code = 8
  /\ misses[3].codeWidth = 3
  /\ nextCode = 9
  /\ codeWidth = 4
  /\ TableGet(table, misses[3].prefix, misses[3].sym) = 8

\* C19: on a miss with nextCode at 4096 the prefix and then a Clear code are
\* emitted at the current width 12, nothing is inserted, and table, nextCode
\* and codeWidth are back at literals only, 6 and 3; no code of 4096 or more
\* is assigned or emitted, and the number of Clear codes emitted is 1 plus
\* the number of such overflows.
C19_OverflowReset ==
  pc \in {"lzwLoop", "lzwReturned"} =>
    /\ \A k \in DOMAIN misses :
         LET m == misses[k]
         IN  /\ emitted[m.at + 1] = Emit(m.prefix, m.codeWidth)
             /\ m.nextCode >= 4096 =>
                  /\ m.nextCode = 4096
                  /\ m.codeWidth = 12
                  /\ ~m.inserted
                  /\ emitted[m.at + 2] = Emit(4, 12)
                  /\ m.newNextCode = 6
                  /\ m.newCodeWidth = 3
             /\ ~m.inserted => m.nextCode = 4096
             /\ m.inserted => m.code < 4096
    /\ (misses # << >> /\ ~misses[Len(misses)].inserted) =>
         /\ LiteralsOnly(table)
         /\ nextCode = 6
         /\ codeWidth = 3
    /\ nextCode <= 4096
    /\ \A k \in DOMAIN emitted :
         /\ EmitCodeOf(emitted[k]) < 4096
         /\ EmitCodeOf(emitted[k]) < Pow2(EmitWidthOf(emitted[k]))
    /\ \A e \in Entries(table) : table[e[1]][e[2]] < 4096
    /\ Cardinality({ k \in DOMAIN emitted : EmitCodeOf(emitted[k]) = 4 })
         = 1 + Cardinality({ k \in DOMAIN misses : ~misses[k].inserted })

\* the state right after the first overflow of a call
C19_Witness ==
  /\ pc = "lzwLoop"
  /\ misses # << >>
  /\ misses[Len(misses)].nextCode = 4096
  /\ ~misses[Len(misses)].inserted
  /\ Cardinality({ k \in DOMAIN misses : ~misses[k].inserted }) = 1
  /\ emitted[Len(emitted)] = Emit(4, 12)
  /\ emitted[Len(emitted) - 1] = Emit(misses[Len(misses)].prefix, 12)
  /\ LiteralsOnly(table) /\ nextCode = 6 /\ codeWidth = 3

\* the number of bits of the first n emitted codes
RECURSIVE BitsOf(_, _)
BitsOf(log, n) == IF n = 0 THEN 0 ELSE BitsOf(log, n - 1) + EmitWidthOf(log[n])

MaxShort == 8

\* C20: for a non-empty input lzwCompress ends by emitting the code of the
\* final prefix and then EOI (5), both at the code width in force when the
\* loop finished; EOI is emitted exactly once and is the last code.
C20_FinalPrefixAndEoi ==
  /\ pc = "lzwLoop" => \A k \in DOMAIN emitted : EmitCodeOf(emitted[k]) # 5
  /\ (pc = "lzwReturned" /\ pixels # << >>) =>
       LET n == Len(emitted)
           w == IF misses = << >> THEN 3 ELSE misses[Len(misses)].newCodeWidth
       IN  /\ n >= 3
           /\ i = Len(pixels)
           /\ codeWidth = w
           /\ emitted[n - 1] = Emit(prefix, w)
           /\ emitted[n] = Emit(5, w)
           /\ \A k \in 1..(n - 1) : EmitCodeOf(emitted[k]) # 5
           \* in the bytes returned, EOI is the last code as well
           /\ n <= MaxShort =>
                /\ Len(rawBytes) = CeilDiv(BitsOf(emitted, n), 8)
                /\ ReadBits(rawBytes, BitsOf(emitted, n - 1), w) = 5
                /\ ReadBits(rawBytes, BitsOf(emitted, n - 2), w) = prefix

\* a call on five symbols that ends at width 4
C20_Witness ==
  /\ pc = "lzwReturned"
  /\ Len(pixels) = 5
  /\ codeWidth = 4
  /\ Len(emitted) = 7
  /\ emitted[6] = Emit(prefix, 4)
  /\ emitted[7] = Emit(5, 4)

\* Reading the codes a..b of log back from bytes, the first of them at bit
\* off: whether each is found, low bit first, right after the one before,
\* and the number of bits they take.
RECURSIVE CodesAt(_, _, _, _, _)
JoinCodes(l, r) == [ok |-> l.ok /\ r.ok, bits |-> l.bits + r.bits]
CodesAfter(log, bytes, a, b, off, l) == JoinCodes(l, CodesAt(log, bytes, a, b, off + l.bits))
CodesAt(log, bytes, a, b, off) ==
  IF a > b THEN [ok |-> TRUE, bits |-> 0]
  ELSE IF a = b
  THEN [ok   |-> ReadBits(bytes, off, EmitWidthOf(log[a])) = EmitCodeOf(log[a]),
        bits |-> EmitWidthOf(log[a])]
  ELSE CodesAfter(log, bytes, ((a + b) \div 2) + 1, b, off,
                  CodesAt(log, bytes, a, (a + b) \div 2, off))

\* the bits from bit n of bytes to its end are 0
ZeroFrom(bytes, n) ==
  \A q \in n..(8 * Len(bytes) - 1) : BitAt(bytes, q) = 0

\* bytes holds exactly the codes of log, low bit first, then zero bits
PackedLsbFirst(log, bytes, r) ==
  /\ r.ok
  /\ Len(bytes) = CeilDiv(r.bits, 8)
  /\ ZeroFrom(bytes, r.bits)

\* C21: the bytes lzwCompress returns are the emitted codes concatenated low
\* bit first, each with its width, padded with zero bits to a byte boundary:
\* ceil(totalBits/8) bytes, never none; and after every emitCode the pending
\* bit count is in 0..7 and the pending bits are below 2^(pending bit count).
C21_LsbFirstPacking ==
  /\ pc = "lzwLoop" =>
       /\ bitLen \in 0..7
       /\ bitBuf >= 0 /\ bitBuf < Pow2(bitLen)
       /\ \A k \in DOMAIN rawBytes : rawBytes[k] \in 0..255
       /\ \E bytes \in { IF bitLen > 0 THEN Append(rawBytes, bitBuf) ELSE rawBytes } :
            \E r \in { CodesAt(emitted, bytes, 1, Len(emitted), 0) } :
              /\ PackedLsbFirst(emitted, bytes, r)
              /\ 8 * Len(rawBytes) + bitLen = r.bits
  /\ pc = "lzwReturned" =>
       /\ rawBytes # << >>
       /\ \A k \in DOMAIN rawBytes : rawBytes[k] \in 0..255
       /\ \E r \in { CodesAt(emitted, rawBytes, 1, Len(emitted), 0) } :
            PackedLsbFirst(emitted, rawBytes, r)

\* the input 0, 1, 2, 3 gives six codes in 20 bits: three bytes, the last
\* with four padding bits
C21_Witness ==
  /\ pc = "lzwReturned"
  /\ pixels = << 0, 1, 2, 3 >>
  /\ emitted = << Emit(4, 3), Emit(0, 3), Emit(1, 3), Emit(2, 3), Emit(3, 4), Emit(5, 4) >>
  /\ rawBytes = << 68, 52, 5 >>

\* what one operation on the stream may do to the buffer and to the results
\* handed out so far
StreamStepOk ==
  pc = "stream" =>
    /\ Len(out') >= Len(out)
    /\ \A k \in DOMAIN out : out'[k] = out[k]
    /\ \A k \in DOMAIN out' : out'[k] \in 0..255
    /\ Len(returned') >= Len(returned)
    /\ \A k \in DOMAIN returned : returned'[k] = returned[k]
    /\ args'.op = "byte" =>
         /\ Len(out') = Len(out) + 1
         /\ out'[Len(out) + 1] = args'.arg % 256
    /\ args'.op = "word" =>
         /\ Len(out') = Len(out) + 2
         /\ out'[Len(out) + 1] = args'.arg % 256
         /\ out'[Len(out) + 2] = (args'.arg \div 256) % 256
    /\ args'.op = "bytes" =>
         /\ Len(out') = Len(out) + Len(args'.arg)
         /\ \A j \in DOMAIN args'.arg : out'[Len(out) + j] = args'.arg[j] % 256
    /\ args'.op = "ascii" =>
         /\ Len(out') = Len(out) + Len(args'.arg)
         /\ \A j \in DOMAIN args'.arg : out'[Len(out) + j] = CharCode(args'.arg[j]) % 256
    /\ args'.op = "toUint8Array" =>
         /\ out' = out
         /\ Len(returned') = Len(returned) + 1
         /\ returned'[Len(returned')].bytes = out
         /\ \A k \in DOMAIN out : returned'[Len(returned')].bytes[k] \in 0..255
    /\ args'.op # "toUint8Array" => returned' = returned

\* C22: ByteStream only appends and never rejects: byte(v) appends v mod 256,
\* word(v) appends v mod 256 then (v div 256) mod 256, bytes and ascii append
\* one masked element per input element, nothing appended before is changed
\* or removed, and every element of the finalized sequence is in 0..255.
C22_AppendOnly == [][StreamStepOk]_vars

\* byte(256) then word(-257): the buffer is 0, 255, 254
C22_Witness ==
  /\ pc = "stream"
  /\ args = [op |-> "word", arg |-> -257]
  /\ out = << 0, 255, 254 >>

\* A standard GIF LZW decoder's code width, followed over the codes a..b of
\* log from the state d = [width, next, fresh, ok]: each code is read at
\* d.width; Clear starts over; the first code after a Clear adds no entry;
\* every other code adds one entry while there is room, and the width grows
\* when the next free code equals 2^width, up to 12.  ok: every code so far
\* was written at the width it is read at; the reading stops at the first
\* code that was not.
StdDecoderRead(d, e) ==
  LET ok == d.ok /\ EmitWidthOf(e) = d.width
      c  == EmitCodeOf(e)
  IN  IF c = 4 THEN [width |-> 3, next |-> 6, fresh |-> TRUE, ok |-> ok]
      ELSE IF c = 5 THEN [d EXCEPT !.ok = ok]
      ELSE IF d.fresh THEN [d EXCEPT !.fresh = FALSE, !.ok = ok]
      ELSE IF d.next >= 4096 THEN [d EXCEPT !.ok = ok]
      ELSE [width |-> IF d.next + 1 = Pow2(d.width) /\ d.width < 12
                      THEN d.width + 1 ELSE d.width,
            next  |-> d.next + 1, fresh |-> FALSE, ok |-> ok]

RECURSIVE StdDecoderReads(_, _, _, _)
StdDecoderReads(d, log, a, b) ==
  IF ~d.ok \/ a > b THEN d
  ELSE IF a = b THEN StdDecoderRead(d, log[a])
  ELSE StdDecoderReads(StdDecoderReads(d, log, a, (a + b) \div 2), log, ((a + b) \div 2) + 1, b)

StdDecoderStart == [width |-> 3, next |-> 6, fresh |-> TRUE, ok |-> TRUE]

\* C23: every code lzwCompress emits, the final prefix and the final EOI
\* included, is written with the number of bits a standard GIF LZW decoder
\* uses to read it.
C23_WidthSynchrony ==
  pc \in {"lzwLoop", "lzwReturned"} =>
    StdDecoderReads(StdDecoderStart, emitted, 1, Len(emitted)).ok

\* C24: in every state of lzwCompress 6 <= nextCode <= 4096,
\* 3 <= codeWidth <= 12 and nextCode <= 2^codeWidth; so every code passed to
\* emitCode is below 2^codeWidth, and no bit of a code overlaps the bits of
\* the next code in the output.
C24_CodeFitsWidth ==
  /\ pc \in {"lzwLoop", "lzwReturned"} =>
       /\ 6 <= nextCode /\ nextCode <= 4096
       /\ 3 <= codeWidth /\ codeWidth <= 12
       /\ nextCode <= Pow2(codeWidth)
       /\ pixels # << >> => (0 <= prefix /\ prefix < nextCode /\ prefix < Pow2(codeWidth))
       /\ \A k \in DOMAIN emitted :
            /\ 0 <= EmitCodeOf(emitted[k])
            /\ EmitCodeOf(emitted[k]) < Pow2(EmitWidthOf(emitted[k]))
       /\ \A k \in DOMAIN misses :
            /\ misses[k].prefix < misses[k].nextCode
            /\ misses[k].nextCode <= Pow2(misses[k].codeWidth)
            /\ misses[k].newNextCode <= Pow2(misses[k].newCodeWidth)
  \* the pending bits lie below the place where the next code is put
  /\ pc = "lzwLoop" => bitBuf < Pow2(bitLen)
  \* each code is found again in the bits that follow the code before it
  /\ pc = "lzwReturned" => CodesAt(emitted, rawBytes, 1, Len(emitted), 0).ok

\* the table is full: both upper bounds are attained, and the prefix is a
\* code of the table
C24_Witness ==
  /\ pc = "lzwLoop"
  /\ nextCode = 4096
  /\ codeWidth = 12
  /\ prefix >= 6
  /\ Len(misses) = 4090

-----------------------------------------------------------------------------
(* The undo history of the editor *)

HistoryInBounds ==
  mounted =>
    /\ Len(historyRef) >= 1
    /\ Len(historyRef) <= MAX_HISTORY
    /\ historyIndexRef >= 0
    /\ historyIndexRef < Len(historyRef)

HistoryStepOk ==
  /\ (Undo /\ historyIndexRef = 0) => UNCHANGED vars
  /\ (Redo /\ historyIndexRef = Len(historyRef) - 1) => UNCHANGED vars
  /\ (/\ mounted
      /\ Len(historyRef) = MAX_HISTORY
      /\ historyIndexRef = MAX_HISTORY - 1
      /\ historyRef' # historyRef
      /\ Len(historyRef') > 1)
     => /\ Len(historyRef') = MAX_HISTORY
        /\ SubSeq(historyRef', 1, MAX_HISTORY - 1) = Tail(historyRef)
        /\ historyIndexRef' = MAX_HISTORY - 1

\* C25: once the editor is mounted, whatever is pushed, undone, redone or
\* loaded, the history holds between 1 and MAX_HISTORY snapshots and
\* historyIndexRef is the index of one of them; a push into a full history
\* drops the oldest snapshot; undo at index 0 and redo at the last index
\* change nothing.
C25_HistoryBounds == []HistoryInBounds /\ [][HistoryStepOk]_vars

\* the history is full and its oldest snapshot is no longer the first one
C25_Witness ==
  /\ mounted
  /\ Len(historyRef) = MAX_HISTORY
  /\ historyIndexRef = MAX_HISTORY - 1
  /\ historyRef[1].frames = << << <<TRUE>> >> >>

\* the snapshot the history index points at, as undo and redo restore it
Restored(e) ==
  [e EXCEPT !.frames = e.history[e.index + 1].frames,
            !.currentFrame = e.history[e.index + 1].currentFrame]

\* C26: where undo can act, undo followed by redo leaves the frames and the
\* current frame of the snapshot that was current before the undo, and where
\* redo can act, so does redo followed by undo; the history index is back
\* where it was, and neither undo nor redo changes the history.
C26_UndoRedoRoundTrip ==
  mounted =>
    /\ historyIndexRef > 0 => Redone(Undone(EditorNow)) = Restored(EditorNow)
    /\ historyIndexRef < Len(historyRef) - 1 => Undone(Redone(EditorNow)) = Restored(EditorNow)
    /\ Undone(EditorNow).history = historyRef
    /\ Redone(EditorNow).history = historyRef

\* in the middle of a history of three different snapshots, after an undo
C26_Witness ==
  /\ mounted
  /\ Len(historyRef) = 3
  /\ historyIndexRef = 1
  /\ framesState = historyRef[2].frames
  /\ historyRef[1].frames # historyRef[2].frames
  /\ historyRef[2].currentFrame # historyRef[3].currentFrame

\* what the handlers may pass to pushHistory in this state: the frames with
\* the current one drawn on, with a frame added, or with the current one
\* deleted, and the current frame that goes with them
PushArguments ==
  { Snapshot(UpdatedAt(framesState, currentFrame, n), currentFrame) :
      n \in NextPixels(framesState[currentFrame + 1]) }
  \cup { Snapshot(InsertAt(framesState, currentFrame + 1,
                           CreateEmptyGrid(widthState, heightState)), currentFrame + 1) }
  \cup { Snapshot(RemoveAt(framesState, currentFrame),
                  Min(currentFrame, Len(framesState) - 2)) : k \in { 1 } \cap 2..Len(framesState) }

SameSnapshot(a, b) == FramesEqual(a.frames, b.frames) /\ a.currentFrame = b.currentFrame

\* the refs and states after pushHistory(p.frames, p.currentFrame)
AfterPush(p) ==
  [history |-> PushHistory(historyRef, historyIndexRef, p.frames, p.currentFrame).history,
   index |-> PushHistory(historyRef, historyIndexRef, p.frames, p.currentFrame).index,
   frames |-> p.frames, currentFrame |-> p.currentFrame]

-----------------------------------------------------------------------------
(* The frames of the editor *)

CurrentFrameInRange(fs, cur) == Len(fs) >= 1 /\ cur >= 0 /\ cur < Len(fs)

FramesInBounds ==
  pc \in {"unmounted", "editor"} =>
    /\ CurrentFrameInRange(framesState, currentFrame)
    /\ \A k \in DOMAIN historyRef :
         CurrentFrameInRange(historyRef[k].frames, historyRef[k].currentFrame)

DeleteStepOk == (HandleDeleteFrame /\ Len(framesState) = 1) => UNCHANGED vars

\* C28: whatever frames are added, duplicated, deleted or selected, whatever
\* is resized, undone, redone or loaded, the editor has at least one frame
\* and currentFrame is the index of one of them, and so has every snapshot
\* of the history; deleting the only frame changes nothing.
C28_FramesBounds == []FramesInBounds /\ [][DeleteStepOk]_vars

\* the second of two frames was added and then deleted: the current frame
\* went from 1 back to 0
C28_Witness ==
  /\ mounted
  /\ Len(historyRef) = 3
  /\ historyIndexRef = 2
  /\ Len(historyRef[1].frames) = 1
  /\ Len(historyRef[2].frames) = 2
  /\ historyRef[2].currentFrame = 1
  /\ Len(framesState) = 1
  /\ currentFrame = 0

-----------------------------------------------------------------------------
(* The share link *)

RoundTrip == returned = << args >>

\* C29 as stated: every animation of one or more frames comes back from
\* decodeAnimationFromHash(encodeAnimationToHash(a)) with its width, height,
\* fps, number of frames and pixels.
C29_RoundTripAnyFrames == pc = "opened" => RoundTrip

\* C29: an animation of 1 to 64 frames, of width and height in 1..64 and fps
\* in 1..24, comes back from decodeAnimationFromHash(encodeAnimationToHash(a))
\* with its width, height, fps, number of frames and pixels.
C29_RoundTrip == (pc = "opened" /\ Len(args.frames) <= MaxLinkFrames) => RoundTrip

\* 64 frames of two cells have come back as they were
C29_Witness ==
  /\ pc = "opened"
  /\ Len(args.frames) = MaxLinkFrames
  /\ args.width = 2
  /\ returned[1].frames = args.frames
  /\ \E k \in 1..MaxLinkFrames : args.frames[k][1][1] /\ ~args.frames[k][1][2]

-----------------------------------------------------------------------------
(* The points of a line *)

LinePoints == returned[1].points

\* C30: bresenhamLine(x0, y0, x1, y1) reaches its break, and the points it
\* returns begin with (x0, y0), end with (x1, y1), are
\* max(|x1 - x0|, |y1 - y0|) + 1 in number, and each differs from the one
\* before it by at most 1 in x and in y and by 1 in at least one of them.
C30_LinePoints ==
  pc = "lineReturned" =>
    /\ returned[1].done
    /\ Len(LinePoints) = Max(Abs(args.x1 - args.x0), Abs(args.y1 - args.y0)) + 1
    /\ LinePoints[1] = <<args.x0, args.y0>>
    /\ LinePoints[Len(LinePoints)] = <<args.x1, args.y1>>
    /\ \A k \in 1..(Len(LinePoints) - 1) :
         /\ Abs(LinePoints[k + 1][1] - LinePoints[k][1]) <= 1
         /\ Abs(LinePoints[k + 1][2] - LinePoints[k][2]) <= 1
         /\ LinePoints[k + 1] # LinePoints[k]

\* a line to the left and upwards that takes straight and diagonal steps
C30_Witness ==
  /\ pc = "lineReturned"
  /\ args = [x0 |-> 3, y0 |-> 1, x1 |-> -3, y1 |-> -1]
  /\ Len(LinePoints) = 7
  /\ \E k \in 1..6 : LinePoints[k + 1][2] = LinePoints[k][2]
  /\ \E k \in 1..6 : LinePoints[k + 1][2] # LinePoints[k][2]


=============================================================================
